---- MODULE Spec2Model ----
(***************************************************************************)
(* Model of the ingestion-and-publishing pipeline of exloli-next:          *)
(*   src/src/uploader.rs        ExloliUploader (try_upload, try_update,    *)
(*                              republish, the image pipeline)             *)
(*   src/src/ehentai/client.rs  EhClient::get_image_url and its fallback   *)
(*                              EhClient::new, page, page_iter,            *)
(*                              get_gallery                                *)
(*   src/src/s3.rs              S3Uploader::upload                         *)
(*   src/src/database/image.rs  PageEntity, ImageEntity queries            *)
(*                                                                         *)
(* The Ledger entities whose definitions are not among the sources         *)
(* (GalleryEntity, MessageEntity, TelegraphEntity and the three-argument   *)
(* ImageEntity::create that uploader.rs:708 calls) are modelled from the   *)
(* data model of the specification; only their call sites are code.        *)
(***************************************************************************)
EXTENDS Integers, Sequences, FiniteSets, TLC

\* ------------------------------------------------------------------ bounds
\* operations (try_upload, try_update, republish) started in one behaviour
MaxOps == 3
\* failures (of a network call or of a Ledger write) injected in one behaviour
MaxFaults == 1
\* config.threads_num: the number of worker tasks and semaphore permits
Threads == 2

\* ------------------------------------------------------- program constants
\* uploader.rs:262  mpsc::channel(concurrent * 2)
QueueFactor == 2

\* ------------------------------------------------------- the remote source
\* Gallery ids the feed can yield.
Galleries == {1, 2}

\* The files of the remote source, by fileindex.
Files == {1, 2, 3, 4}

\* The page token (EhPageUrl::hash) of a file: the dedup key.  It is a short
\* prefix of the file's digest, so two files can share it (files 1 and 4).
FileHash(f) == CASE f = 1 -> "hA" [] f = 2 -> "hB" [] f = 3 -> "hC" [] OTHER -> "hA"

Hashes == {FileHash(f) : f \in Files}

\* EhGallery.pages: the ordered pages of a gallery, as the file each shows.
\* Gallery 1 has three pages of distinct hashes; gallery 2 repeats page 1 of
\* gallery 1 and adds a file whose token collides with it; the long gallery
\* has more pages than the workers and the queue hold together.
GalleryPages(g) ==
    IF g = 1 THEN <<1, 2, 3>> ELSE IF g = 2 THEN <<1, 4>> ELSE <<1, 2, 3, 4, 1, 2, 3>>
\* the id of the long gallery, uploaded by a command (specification SpecPipeline)
LongGallery == 3

\* title and tags of a gallery, as versions the source can serve
Metas == {0, 1}

\* EhGallery.parent
GalleryParent(g) == IF g = 2 THEN 1 ELSE 0

PageNumbers(g) == 1..Len(GalleryPages(g))
\* EhPageUrl::hash of page n of gallery g
PageHash(g, n) == FileHash(GalleryPages(g)[n])
\* the fileindex get_image_url extracts for page n of gallery g
PageFileIndex(g, n) == GalleryPages(g)[n]

\* concurrent at twice the configured number
concurrentDoubled == 2 * Threads
\* uploader.rs:260: let concurrent = self.config.threads_num
concurrent == Threads
\* uploader.rs:318: for _ in 0..concurrent, the worker tasks
Workers == 1..concurrent
RunIds == {1, 2}

VARIABLES
    image,      \* Ledger: Image rows        [id, hash, url]
    page,       \* Ledger: PageMapping rows  [gallery_id, page, image_id]
    message,    \* Ledger: ChannelMessage rows [id, gallery_id, publish_date]
    telegraph,  \* Ledger: Article rows      [gallery_id, url]
    gallery,    \* Ledger: GalleryEntity rows [id, meta]
    sent,       \* messaging collaborator: messages sent [id, gallery, reply_to]
    edits,      \* messaging collaborator: edits performed [id, url]
    articles,   \* ArticlePublisher: number of articles created so far
    uploads,    \* ContentStore: number of upload calls per hash
    now,        \* current date, as a day number
    run,        \* the try_upload calls in progress
    ops,        \* operations started so far
    last,       \* the call that completed last
    ledgerErr,  \* some Ledger write has returned an error
    faultsLeft, \* failures (network or Ledger) the environment may still inject
    res,        \* one get_image_url call (specification SpecUrl)
    wk,         \* one worker iteration on one page (specification SpecWorker)
    scan,       \* the scan cycle: ExloliUploader::check (specification SpecScan)
    eh,         \* one EhClient call: new, page_iter or get_gallery
    s3,         \* one S3Uploader::upload call (specification SpecStore)
    bot         \* one edit_message_text_with_retry call (specification SpecRetry)

ledger == <<image, page, message, telegraph, gallery>>
world == <<sent, edits, articles, uploads, now>>
vars == <<image, page, message, telegraph, gallery, sent, edits, articles,
          uploads, now, run, ops, last, ledgerErr, faultsLeft, res, wk, scan, eh, s3, bot>>

\* no EhClient call is running
NoEh == [pc |-> "none"]

\* no edit_message_text_with_retry call is running
NoBot == [pc |-> "none"]

\* no S3Uploader::upload call is running
NoS3 == [pc |-> "none"]

\* uploader.rs:71-91: no scan cycle is running
NoScan == [pc |-> "none", feed |-> <<>>, k |-> 0, log |-> <<>>, out |-> <<>>]

\* ------------------------------------------------------------------ Ledger
\* ImageEntity::get_by_hash: SELECT * FROM image WHERE hash = ?
ImageEntity_get_by_hash(img, h) == {i \in img : i.hash = h}

\* ImageEntity::create(id, hash, url) as called at uploader.rs:708:
\* create-if-absent by content hash.
ImageEntity_create(img, id, h, url) ==
    IF ImageEntity_get_by_hash(img, h) # {} THEN img
    ELSE img \cup {[id |-> id, hash |-> h, url |-> url]}

\* PageEntity::create: INSERT OR IGNORE, one row per (gallery_id, page)
PageEntity_create(pg, g, n, id) ==
    IF \E m \in pg : m.gallery_id = g /\ m.page = n THEN pg
    ELSE pg \cup {[gallery_id |-> g, page |-> n, image_id |-> id]}

\* ImageEntity::get_by_gallery_id: image JOIN page ON page.image_id = image.id
\* WHERE page.gallery_id = ?, as the set of (page, image) pairs
ImageEntity_get_by_gallery_id(img, pg, g) ==
    {[page |-> m.page, url |-> i.url] :
        <<m, i>> \in {x \in pg \X img : x[1].gallery_id = g /\ x[1].image_id = x[2].id}}

\* MessageEntity::create(id, gallery_id): a row keyed by the external message id
MessageEntity_create(msg, id, g, date) ==
    IF \E m \in msg : m.id = id THEN msg
    ELSE msg \cup {[id |-> id, gallery_id |-> g, publish_date |-> date]}

\* MessageEntity::get_by_gallery: the message rows of a gallery
MessageEntity_get_by_gallery(msg, g) == {m \in msg : m.gallery_id = g}

\* TelegraphEntity::create(gallery_id, url): create-if-absent, one row per gallery
TelegraphEntity_create(tg, g, url) ==
    IF \E t \in tg : t.gallery_id = g THEN tg
    ELSE tg \cup {[gallery_id |-> g, url |-> url]}

\* TelegraphEntity::update(gallery_id, url): replaces the url of the stored row
TelegraphEntity_update(tg, g, url) ==
    {IF t.gallery_id = g THEN [t EXCEPT !.url = url] ELSE t : t \in tg}

\* TelegraphEntity::get(gallery_id)
TelegraphEntity_get(tg, g) == {t \in tg : t.gallery_id = g}

\* GalleryEntity::check / GalleryEntity::get
GalleryEntity_get(gal, g) == {e \in gal : e.id = g}

\* GalleryEntity::create(&gallery): create-or-update of the stored snapshot
GalleryEntity_create(gal, g, meta) ==
    {e \in gal : e.id # g} \cup {[id |-> g, meta |-> meta]}

\* -------------------------------------------------------------- the clock
\* Lengths of the months the model's days run through (a non-leap year).
MonthLengths == <<31, 28, 31, 30, 31, 30, 31, 31, 30, 31, 30, 31>>

RECURSIVE DayIn(_, _)
DayIn(d, m) ==
    IF m > Len(MonthLengths) THEN DayIn(d, 1)
    ELSE IF d < MonthLengths[m] THEN d + 1 ELSE DayIn(d - MonthLengths[m], m + 1)

\* chrono Datelike::day of the date with day number d (day 0 is 1 January)
DayOfMonth(d) == DayIn(d, 1)

\* Seed with the bounds of its ranges taken inclusive
SeedInclusive(n) == IF n <= 2 THEN 1 ELSE IF n <= 7 THEN 3 ELSE IF n <= 14 THEN 7 ELSE 14

\* uploader.rs:165-170: the cadence for a message published n days ago
Seed(n) == IF n < 2 THEN 1 ELSE IF n < 7 THEN 3 ELSE IF n < 14 THEN 7 ELSE 14

\* uploader.rs:171: the throttle lets the re-check through
CadenceDue(check, today, published) ==
    ~(check /\ DayOfMonth(today) % Seed(today - published) # 0)

\* ------------------------------------------------------- try_upload calls
\* no gallery was fetched
NoMeta == -1
NoWorker == [st |-> "none", p |-> 0]
\* a completed call: the operation, its arguments and its result
NoPrev == [op |-> "none", g |-> 0, check |-> FALSE, res |-> "none"]
\* uploader.rs:28-35: UploadProgress, before a pipeline has set it
NoProgress == [total_pages |-> 0, downloaded_pages |-> 0, uploaded_pages |-> 0,
               parsed_pages |-> 0]

\* uploader.rs:246-252, 268-274: the UploadProgress a pipeline starts from, the
\* pages whose Image row exists counting as parsed, downloaded and uploaded
UploadProgress(total, already_uploaded) ==
    [total_pages |-> total, downloaded_pages |-> already_uploaded,
     uploaded_pages |-> already_uploaded, parsed_pages |-> already_uploaded]

\* report_parsed of a resolver that reports without counting the page
report_parsed_uncounted(prog) == prog

\* uploader.rs:288-292: prog.parsed_pages += 1; callback(prog.clone())
report_parsed(prog) == [prog EXCEPT !.parsed_pages = @ + 1]

\* uploader.rs:665-669: prog.downloaded_pages += 1; callback(prog.clone())
report_downloaded(prog) == [prog EXCEPT !.downloaded_pages = @ + 1]

\* uploader.rs:726-730: prog.uploaded_pages += 1; callback(prog.clone())
report_uploaded(prog) == [prog EXCEPT !.uploaded_pages = @ + 1]

IdleRun == [pc |-> "idle", g |-> 0, check |-> FALSE, net |-> {}, meta |-> NoMeta,
            todo |-> <<>>, held |-> 0, getter |-> "none", queue |-> <<>>,
            w |-> [i \in Workers |-> NoWorker], wrote |-> FALSE, prev |-> NoPrev,
            known |-> {}, touched |-> {}, pushed |-> <<>>, attempted |-> {},
            progress |-> NoProgress, reported |-> <<>>]
\* last: the call that completed last, the network calls it made, the version
\* of the gallery it fetched, whether it changed a Ledger row, and the call
\* that had completed last when it began
NoCall == [op |-> "none", g |-> 0, check |-> FALSE, res |-> "none", net |-> {},
           fetched |-> NoMeta, wrote |-> FALSE, prev |-> NoPrev]
Summary(l) == [op |-> l.op, g |-> l.g, check |-> l.check, res |-> l.res]

Active(r) == run[r].pc # "idle"
\* a call takes the lowest free slot
FreeSlot(r) == ~Active(r) /\ \A q \in RunIds : q < r => Active(q)

\* the call of slot r returns result with the network calls it made
Completed(r, result, net) ==
    /\ run' = [run EXCEPT ![r] = IdleRun]
    /\ last' = [op |-> "try_upload", g |-> run[r].g, check |-> run[r].check,
                res |-> result, net |-> net, fetched |-> run[r].meta,
                wrote |-> (run[r].wrote \/ ledger' # ledger), prev |-> run[r].prev]

\* Known with the message test inverted (is_none for is_some)
KnownInverted(check, gal, msg, g) ==
    check /\ GalleryEntity_get(gal, g) # {} /\ MessageEntity_get_by_gallery(msg, g) = {}

\* uploader.rs:113-118: the skip-if-known test of try_upload_with_progress
Known(check, gal, msg, g) ==
    check /\ GalleryEntity_get(gal, g) # {} /\ MessageEntity_get_by_gallery(msg, g) # {}

\* uploader.rs:103-119: try_upload_with_progress is called; it returns at once
\* when the gallery is known and check is set
try_upload_call(r, g, check) ==
    /\ FreeSlot(r)
    /\ ops' = ops + 1
    /\ IF Known(check, gallery, message, g)
       THEN /\ last' = [op |-> "try_upload", g |-> g, check |-> check,
                        res |-> "ok", net |-> {}, fetched |-> NoMeta,
                        wrote |-> FALSE, prev |-> Summary(last)]
            /\ UNCHANGED run
       ELSE /\ run' = [run EXCEPT ![r] = [IdleRun EXCEPT !.pc = "fetch", !.g = g,
                                                        !.check = check,
                                                        !.prev = Summary(last)]]
            /\ UNCHANGED last
    /\ UNCHANGED <<ledger, world, ledgerErr, faultsLeft, res, wk>>

\* a try_upload call of a command (cmd_upload, AdminCommand::Upload)
try_upload(r, g, check) ==
    /\ ops < MaxOps
    /\ try_upload_call(r, g, check)
    /\ UNCHANGED <<scan, eh, s3, bot>>

\* Unresolved passing every page on to the pipeline
UnresolvedAll(img, g, n) == [k \in 1..Len(GalleryPages(g)) |-> k]

\* uploader.rs:231-242: the pages of gallery g whose hash has no Image row
RECURSIVE Unresolved(_, _, _)
Unresolved(img, g, n) ==
    IF n > Len(GalleryPages(g)) THEN <<>>
    ELSE IF ImageEntity_get_by_hash(img, PageHash(g, n)) # {}
         THEN Unresolved(img, g, n + 1)
         ELSE <<n>> \o Unresolved(img, g, n + 1)

\* uploader.rs:235-239: a PageMapping row for every page whose hash is known
RECURSIVE MapKnown(_, _, _, _)
MapKnown(pg, img, g, n) ==
    IF n > Len(GalleryPages(g)) THEN pg
    ELSE LET found == ImageEntity_get_by_hash(img, PageHash(g, n))
         IN  IF found = {} THEN MapKnown(pg, img, g, n + 1)
             ELSE MapKnown(PageEntity_create(pg, g, n, (CHOOSE i \in found : TRUE).id),
                           img, g, n + 1)

\* uploader.rs:120-122, 229-346: get_gallery, then the dedup partition; the
\* resolver and the workers are spawned when some page is unresolved
upload_gallery_image(r) ==
    /\ run[r].pc = "fetch"
    /\ UNCHANGED <<image, message, telegraph, gallery, world, ops, ledgerErr, res, wk, scan, eh, s3, bot>>
    /\ \E ok \in BOOLEAN, meta \in Metas :
        IF ~ok
        THEN /\ faultsLeft > 0 /\ faultsLeft' = faultsLeft - 1
             /\ meta = 0
             /\ UNCHANGED page
             /\ Completed(r, "err", run[r].net \cup {"fetch"})
        ELSE LET g == run[r].g
                 todo == Unresolved(image, g, 1)
                 known == {n \in PageNumbers(g) :
                              ImageEntity_get_by_hash(image, PageHash(g, n)) # {}}
                 prog == UploadProgress(Len(GalleryPages(g)),
                                        Len(GalleryPages(g)) - Len(todo))
             IN  /\ page' = MapKnown(page, image, g, 1)
                 /\ run' = [run EXCEPT ![r] =
                        [@ EXCEPT !.net = @ \cup {"fetch"},
                                  !.meta = meta,
                                  !.wrote = (page' # page),
                                  !.pc = IF todo = <<>> THEN "publish" ELSE "pipeline",
                                  !.todo = todo,
                                  !.known = known,
                                  !.progress = prog,
                                  !.reported = IF todo = <<>> THEN <<prog>> ELSE <<>>,
                                  !.getter = IF todo = <<>> THEN "none" ELSE "run",
                                  !.w = IF todo = <<>> THEN @
                                        ELSE [i \in Workers |-> [st |-> "recv", p |-> 0]]]]
                 /\ UNCHANGED <<last, faultsLeft>>

\* a queue of half as much again
QueueCapLarger == concurrent * (QueueFactor + 1)
\* uploader.rs:262: the capacity of the channel between resolver and workers
QueueCap == concurrent * QueueFactor

\* the states of a task that has ended: returned Ok, returned Err, panicked
Ended == {"ok", "err", "panic"}

\* NextPage taking the last of the pages left
NextPageLast(todo) == todo[Len(todo)]

\* uploader.rs:283: for page in pages, the next page in the order of the
\* partition
NextPage(todo) == Head(todo)

\* uploader.rs:283-292: the resolver calls get_image_url for the next page; an
\* error or a panic ends the resolver task and drops the sending end of the
\* channel
getter_resolve(r) ==
    /\ run[r].pc = "pipeline" /\ run[r].getter = "run"
    /\ run[r].held = 0 /\ run[r].todo # <<>>
    /\ \E out \in Ended :
        /\ faultsLeft' = IF out = "ok" THEN faultsLeft ELSE faultsLeft - 1
        /\ faultsLeft' >= 0
        /\ run' = [run EXCEPT ![r] =
            IF out = "ok"
            THEN [@ EXCEPT !.net = @ \cup {"resolve"},
                           !.touched = @ \cup {NextPage(run[r].todo)},
                           !.held = NextPage(run[r].todo),
                           !.progress = report_parsed(@),
                           !.reported = <<report_parsed(run[r].progress)>>,
                           !.todo = Tail(run[r].todo)]
            ELSE [@ EXCEPT !.net = @ \cup {"resolve"},
                           !.touched = @ \cup {NextPage(run[r].todo)},
                           !.getter = out]]
    /\ UNCHANGED <<ledger, world, ops, last, ledgerErr, res, wk, scan, eh, s3, bot>>

\* uploader.rs:294-300: parse_tx.send waits for room in the channel; after the
\* last page the sending end is dropped and the task returns Ok
getter_send(r) ==
    /\ run[r].pc = "pipeline" /\ run[r].getter = "run"
    /\ run[r].held # 0
    /\ Len(run[r].queue) < QueueCap
    /\ run' = [run EXCEPT ![r] =
            [@ EXCEPT !.queue = Append(@, run[r].held),
                      !.pushed = Append(@, run[r].held),
                      !.held = 0,
                      !.getter = IF run[r].todo = <<>> THEN "ok" ELSE "run"]]
    /\ UNCHANGED <<ledger, world, ops, last, ledgerErr, faultsLeft, res, wk, scan, eh, s3, bot>>

\* worker_recv of a worker that gives up once a sibling has failed
worker_recv_aborted(r, i) ==
    /\ run[r].pc = "pipeline" /\ run[r].w[i].st = "recv"
    /\ IF \E j \in Workers : run[r].w[j].st \in {"err", "panic"}
       THEN run' = [run EXCEPT ![r].w[i] = [st |-> "ok", p |-> 0]]
       ELSE IF run[r].queue # <<>>
       THEN run' = [run EXCEPT ![r] =
                [@ EXCEPT !.w[i] = [st |-> "permit", p |-> Head(run[r].queue)],
                          !.queue = Tail(@)]]
       ELSE /\ run[r].getter \in Ended
            /\ run' = [run EXCEPT ![r].w[i] = [st |-> "ok", p |-> 0]]
    /\ UNCHANGED <<ledger, world, ops, last, ledgerErr, faultsLeft, res, wk, scan, eh, s3, bot>>

\* worker_recv reading the head of the channel without taking it out
worker_recv_peek(r, i) ==
    /\ run[r].pc = "pipeline" /\ run[r].w[i].st = "recv"
    /\ IF run[r].queue # <<>>
       THEN run' = [run EXCEPT ![r].w[i] = [st |-> "permit", p |-> Head(run[r].queue)]]
       ELSE /\ run[r].getter \in Ended
            /\ run' = [run EXCEPT ![r].w[i] = [st |-> "ok", p |-> 0]]
    /\ UNCHANGED <<ledger, world, ops, last, ledgerErr, faultsLeft, res, wk, scan, eh, s3, bot>>

\* uploader.rs:334-342: a worker receives the next tuple, or None once the
\* channel is empty and its sending end dropped, which ends the worker
worker_recv(r, i) ==
    /\ run[r].pc = "pipeline" /\ run[r].w[i].st = "recv"
    /\ IF run[r].queue # <<>>
       THEN run' = [run EXCEPT ![r] =
                [@ EXCEPT !.w[i] = [st |-> "permit", p |-> Head(run[r].queue)],
                          !.queue = Tail(@)]]
       ELSE /\ run[r].getter \in Ended
            /\ run' = [run EXCEPT ![r].w[i] = [st |-> "ok", p |-> 0]]
    /\ UNCHANGED <<ledger, world, ops, last, ledgerErr, faultsLeft, res, wk, scan, eh, s3, bot>>

\* permits of the semaphore (uploader.rs:313) that are taken
Permits(r) == Cardinality({i \in Workers : run[r].w[i].st = "net"})

\* uploader.rs:345: sem.acquire
worker_acquire(r, i) ==
    /\ run[r].pc = "pipeline" /\ run[r].w[i].st = "permit"
    /\ Permits(r) < concurrent
    /\ run' = [run EXCEPT ![r].w[i].st = "net"]
    /\ UNCHANGED <<ledger, world, ops, last, ledgerErr, faultsLeft, res, wk, scan, eh, s3, bot>>

\* a Ledger write a worker attempted for page n, and whether it succeeded
Attempt(n, write, ok) == [page |-> n, write |-> write, ok |-> ok]

\* WorkerWrites without the PageMapping write
WorkerWritesNoPage(img, pg, g, n, imageOk, pageOk) ==
    <<IF imageOk THEN ImageEntity_create(img, PageFileIndex(g, n), PageHash(g, n),
                                         PageFileIndex(g, n))
      ELSE img, pg, {Attempt(n, "image", imageOk)}>>

\* WorkerWrites giving up the PageMapping write when the Image write failed
WorkerWritesImageFirst(img, pg, g, n, imageOk, pageOk) ==
    LET f == PageFileIndex(g, n)
    IN  IF imageOk
        THEN <<ImageEntity_create(img, f, PageHash(g, n), f),
               IF pageOk THEN PageEntity_create(pg, g, n, f) ELSE pg,
               {Attempt(n, "image", TRUE), Attempt(n, "page", pageOk)}>>
        ELSE <<img, pg, {Attempt(n, "image", FALSE)}>>

\* uploader.rs:706-723: the two Ledger writes of a worker.  The PageMapping
\* row is written with the fileindex, whatever the Image write did.
WorkerWrites(img, pg, g, n, imageOk, pageOk) ==
    LET f == PageFileIndex(g, n)
        img2 == IF imageOk THEN ImageEntity_create(img, f, PageHash(g, n), f) ELSE img
        pg2 == IF pageOk THEN PageEntity_create(pg, g, n, f) ELSE pg
    IN  <<img2, pg2, {Attempt(n, "image", imageOk), Attempt(n, "page", pageOk)}>>

\* uploader.rs:665-669, 726-730: the progress after an iteration of a worker:
\* the download is counted once it succeeded, the upload once it succeeded
WorkerProgress(prog, out) ==
    IF out = "ok" THEN report_uploaded(report_downloaded(prog))
    ELSE IF out = "upload_err" THEN report_downloaded(prog)
    ELSE prog

\* the values an iteration of a worker hands to the callback, in order
WorkerReports(prog, out, before) ==
    IF out = "ok"
    THEN <<report_downloaded(prog), report_uploaded(report_downloaded(prog))>>
    ELSE IF out = "upload_err" THEN <<report_downloaded(prog)>>
    ELSE before

\* uploader.rs:347-731: one iteration of a worker on its tuple: size probe,
\* download (with the transform chain), upload, Ledger writes.  A failed
\* download or upload ends the worker task with an error, a panic ends it too.
worker_process(r, i) ==
    /\ run[r].pc = "pipeline" /\ run[r].w[i].st = "net"
    /\ UNCHANGED <<message, telegraph, gallery, sent, edits, articles, now,
                   ops, last, res, wk, scan, eh, s3, bot>>
    /\ LET g == run[r].g
           n == run[r].w[i].p
           h == PageHash(g, n)
       IN \E out \in {"ok", "download_err", "upload_err", "panic"},
             imageOk, pageOk \in BOOLEAN :
            /\ out # "ok" => imageOk /\ pageOk
            /\ faultsLeft' = faultsLeft - ((IF out = "ok" THEN 0 ELSE 1)
                                + (IF imageOk THEN 0 ELSE 1) + (IF pageOk THEN 0 ELSE 1))
            /\ faultsLeft' >= 0
            /\ uploads' = IF out \in {"download_err", "panic"} THEN uploads
                          ELSE [uploads EXCEPT ![h] = @ + 1]
            /\ IF out = "ok"
               THEN LET wr == WorkerWrites(image, page, g, n, imageOk, pageOk)
                    IN  /\ image' = wr[1]
                        /\ page' = wr[2]
                        /\ ledgerErr' = (ledgerErr \/ ~imageOk \/ ~pageOk)
               ELSE UNCHANGED <<image, page, ledgerErr>>
            /\ run' = [run EXCEPT ![r] =
                    [@ EXCEPT !.net = @ \cup (IF out \in {"download_err", "panic"}
                                              THEN {"download"}
                                              ELSE {"download", "upload"}),
                              !.touched = @ \cup {n},
                              !.attempted = @ \cup (IF out = "ok"
                                    THEN WorkerWrites(image, page, g, n, imageOk, pageOk)[3]
                                    ELSE {}),
                              !.wrote = (@ \/ <<image', page'>> # <<image, page>>),
                              !.progress = WorkerProgress(@, out),
                              !.reported = WorkerReports(run[r].progress, out, @),
                              !.w[i] = IF out = "ok" THEN [st |-> "recv", p |-> 0]
                                       ELSE IF out = "panic" THEN [st |-> "panic", p |-> 0]
                                       ELSE [st |-> "err", p |-> 0]]]

\* uploader.rs:822-828: flatten, the result of an awaited task; a JoinError
\* (the task panicked) becomes an error
flatten(st) == IF st = "ok" THEN "ok" ELSE "err"

\* JoinResult looking at the resolver only
JoinResultResolverOnly(getter, ws) == flatten(getter)

\* uploader.rs:748-753: parse_result?, then result? for each worker
JoinResult(getter, ws) ==
    IF flatten(getter) = "err" THEN "err"
    ELSE IF \E i \in DOMAIN ws : flatten(ws[i].st) = "err" THEN "err"
    ELSE "ok"

\* uploader.rs:739-754: the pipeline returns once the resolver and every
\* worker have ended, with an error if any of them did
pipeline_join(r) ==
    /\ run[r].pc = "pipeline"
    /\ UNCHANGED <<ledger, world, ops, ledgerErr, faultsLeft, res, wk, scan, eh, s3, bot>>
    /\ run[r].getter \in Ended
    /\ \A i \in Workers : run[r].w[i].st \in Ended
    /\ IF JoinResult(run[r].getter, run[r].w) = "err"
       THEN Completed(r, "err", run[r].net)
       ELSE /\ run' = [run EXCEPT ![r] =
                    [@ EXCEPT !.pc = "publish", !.getter = "none", !.queue = <<>>,
                              !.w = [i \in Workers |-> NoWorker]]]
            /\ UNCHANGED last

\* uploader.rs:760-779: publish_telegraph_article builds the article from the
\* Image rows the Ledger has for the gallery; its URL is the new article's
PublishArticle(arts, img, pg, g) == Append(arts, ImageEntity_get_by_gallery_id(img, pg, g))

\* uploader.rs:128-139: the message id to reply to: the parent's message, if any
ReplyTo(msg, g) ==
    LET pm == IF GalleryParent(g) = 0 THEN {}
              ELSE MessageEntity_get_by_gallery(msg, GalleryParent(g))
    IN  IF pm = {} THEN {0} ELSE {m.id : m \in pm}

\* RecordUpload writing the gallery first, then the message, then the article
RecordUploadGalleryFirst(msg, tg, gal, failAt, mid, g, url, meta, date) ==
    LET gal2 == IF failAt = "gallery" THEN gal ELSE GalleryEntity_create(gal, g, meta)
        msg2 == IF failAt \in {"gallery", "message"} THEN msg
                ELSE MessageEntity_create(msg, mid, g, date)
        tg2 == IF failAt \in {"gallery", "message", "telegraph"} THEN tg
               ELSE TelegraphEntity_create(tg, g, url)
    IN  <<msg2, tg2, gal2>>

\* uploader.rs:140-143: message, then article, then gallery; each write can
\* fail and ends the call (failAt names the first write that fails)
RecordUpload(msg, tg, gal, failAt, mid, g, url, meta, date) ==
    LET msg2 == IF failAt = "message" THEN msg ELSE MessageEntity_create(msg, mid, g, date)
        tg2 == IF failAt \in {"message", "telegraph"} THEN tg
               ELSE TelegraphEntity_create(tg, g, url)
        gal2 == IF failAt \in {"message", "telegraph", "gallery"} THEN gal
                ELSE GalleryEntity_create(gal, g, meta)
    IN  <<msg2, tg2, gal2>>

\* MessageSent of a call that sends the message before it publishes the article
MessageSentFirst(failAt) == failAt # "send"

\* uploader.rs:123-139: the channel message is sent unless the publication
\* of the article or the sending failed
MessageSent(failAt) == failAt \notin {"publish", "send"}

\* uploader.rs:123-145: publish the article, send the channel message, record
\* message, article and gallery.  failAt is the step that fails, if any.
try_upload_publish(r) ==
    /\ run[r].pc = "publish"
    /\ UNCHANGED <<image, page, edits, uploads, now, ops, res, wk, scan, eh, s3, bot>>
    /\ LET g == run[r].g IN
       \E failAt \in {"publish", "send", "message", "telegraph", "gallery", "none"},
          reply \in ReplyTo(message, g) :
            LET arts == IF failAt = "publish" THEN articles
                        ELSE PublishArticle(articles, image, page, g)
                url == Len(arts)
                mid == Cardinality(sent) + 1
                wasSent == MessageSent(failAt)
                rec == IF wasSent
                       THEN RecordUpload(message, telegraph, gallery, failAt, mid, g, url,
                                         run[r].meta, now)
                       ELSE <<message, telegraph, gallery>>
            IN  /\ failAt \in {"publish", "send"} => reply = CHOOSE x \in ReplyTo(message, g) : TRUE
                /\ faultsLeft' = IF failAt = "none" THEN faultsLeft ELSE faultsLeft - 1
                /\ faultsLeft' >= 0
                /\ articles' = arts
                /\ sent' = IF wasSent
                           THEN sent \cup {[id |-> mid, gallery |-> g, reply_to |-> reply]}
                           ELSE sent
                /\ message' = rec[1]
                /\ telegraph' = rec[2]
                /\ gallery' = rec[3]
                /\ ledgerErr' = (ledgerErr \/ failAt \in {"message", "telegraph", "gallery"})
                /\ Completed(r, IF failAt = "none" THEN "ok" ELSE "err",
                             run[r].net \cup (IF failAt = "publish" THEN {"publish"}
                                              ELSE {"publish", "send"}))

\* uploader.rs:175-192: after the re-fetch, the message is edited when title
\* or tags differ from the stored snapshot, and the snapshot is stored.
\* TelegraphEntity::get(..).unwrap() panics when the gallery has no Article.
UpdateOutcome(changed, hasArticle, failAt) ==
    IF failAt = "fetch" THEN "err"
    ELSE IF changed /\ ~hasArticle THEN "panic"
    ELSE IF failAt = "none" THEN "ok" ELSE "err"

\* EditMessage editing another message than the one given
EditMessageOther(ed, id, url) == ed \cup {[id |-> id + 1, url |-> url]}

\* uploader.rs:181-187, 200-202: bot.edit_message_text(MessageId(id), text)
EditMessage(ed, id, url) == ed \cup {[id |-> id, url |-> url]}

\* UpdateSkipped with the gallery fetched before the rows are looked up
UpdateSkippedFetching == [res |-> "ok", net |-> {"fetch"}]

\* uploader.rs:153, 157, 172: the early returns of try_update
UpdateSkipped == [res |-> "ok", net |-> {}]

\* StoreSnapshot keeping the stored snapshot
StoreSnapshotStale(gal, g, meta) == gal

\* uploader.rs:190: the fetched gallery becomes the stored snapshot
StoreSnapshot(gal, g, meta) == GalleryEntity_create(gal, g, meta)

\* uploader.rs:150-193: one call of try_update.  No-op without a stored
\* gallery and message, or when the throttle holds it back; else the gallery
\* is fetched again, the message edited when title or tags changed, the
\* snapshot stored.
try_update_call(g, check) ==
    /\ UNCHANGED <<image, page, message, telegraph, sent, articles, uploads,
                   now, run, res, wk>>
    /\ ops' = ops + 1
    /\ LET entity == GalleryEntity_get(gallery, g)
           msgs == MessageEntity_get_by_gallery(message, g)
           done(result, net, fetched) ==
               last' = [op |-> "try_update", g |-> g, check |-> check,
                        res |-> result, net |-> net, fetched |-> fetched,
                        wrote |-> (gallery' # gallery), prev |-> Summary(last)]
       IN IF entity = {} \/ msgs = {}
          THEN /\ UNCHANGED <<gallery, edits, ledgerErr, faultsLeft>>
               /\ done(UpdateSkipped.res, UpdateSkipped.net, NoMeta)
          ELSE \E m \in msgs :
               IF ~CadenceDue(check, now, m.publish_date)
               THEN /\ UNCHANGED <<gallery, edits, ledgerErr, faultsLeft>>
                    /\ done(UpdateSkipped.res, UpdateSkipped.net, NoMeta)
               ELSE LET e == CHOOSE x \in entity : TRUE
                        tgs == TelegraphEntity_get(telegraph, g)
                    IN \E meta \in Metas, failAt \in {"fetch", "edit", "gallery", "none"} :
                        LET changed == meta # e.meta
                            out == UpdateOutcome(changed, tgs # {}, failAt)
                            edited == changed /\ tgs # {} /\ failAt \in {"gallery", "none"}
                        IN  /\ failAt = "edit" => changed /\ tgs # {}
                            /\ failAt = "fetch" => meta = 0
                            /\ faultsLeft' = IF failAt = "none" THEN faultsLeft
                                             ELSE faultsLeft - 1
                            /\ faultsLeft' >= 0
                            /\ edits' = IF edited
                                        THEN EditMessage(edits, m.id,
                                                         (CHOOSE t \in tgs : TRUE).url)
                                        ELSE edits
                            /\ gallery' = IF out = "ok"
                                          THEN StoreSnapshot(gallery, g, meta)
                                          ELSE gallery
                            /\ ledgerErr' = (ledgerErr \/ (failAt = "gallery" /\ out = "err"))
                            /\ done(out, IF failAt = "fetch" \/ ~changed \/ tgs = {}
                                         THEN {"fetch"} ELSE {"fetch", "edit"},
                                    IF failAt = "fetch" THEN NoMeta ELSE meta)

\* a try_update call of a command (cmd_update) or of a schedule, made while
\* no try_upload call is in progress
try_update(g, check) ==
    /\ ops < MaxOps
    /\ \A r \in RunIds : ~Active(r)
    /\ try_update_call(g, check)
    /\ UNCHANGED <<scan, eh, s3, bot>>

\* RepublishLedger appending a row instead of replacing the stored url
RepublishLedgerAppend(tg, g, url) == tg \cup {[gallery_id |-> g, url |-> url]}

\* uploader.rs:203: republish stores the new article url
RepublishLedger(tg, g, url) == TelegraphEntity_update(tg, g, url)

\* uploader.rs:196-205: republish regenerates the article of a stored gallery,
\* edits its message and replaces the url of the stored Article row
republish(g) ==
    /\ ops < MaxOps
    /\ \A r \in RunIds : ~Active(r)
    /\ GalleryEntity_get(gallery, g) # {}
    /\ ops' = ops + 1
    /\ \E m \in MessageEntity_get_by_gallery(message, g),
          failAt \in {"publish", "edit", "update", "none"} :
            LET arts == IF failAt = "publish" THEN articles
                        ELSE PublishArticle(articles, image, page, g)
                url == Len(arts)
                edited == failAt \in {"update", "none"}
            IN  /\ faultsLeft' = IF failAt = "none" THEN faultsLeft ELSE faultsLeft - 1
                /\ faultsLeft' >= 0
                /\ articles' = arts
                /\ edits' = IF edited THEN EditMessage(edits, m.id, url) ELSE edits
                /\ telegraph' = IF failAt = "none" THEN RepublishLedger(telegraph, g, url)
                                ELSE telegraph
                /\ ledgerErr' = (ledgerErr \/ failAt = "update")
                /\ last' = [op |-> "republish", g |-> g, check |-> FALSE,
                            res |-> IF failAt = "none" THEN "ok" ELSE "err",
                            net |-> IF failAt = "publish" THEN {"publish"}
                                    ELSE {"publish", "edit"},
                            fetched |-> NoMeta,
                            wrote |-> (telegraph' # telegraph), prev |-> Summary(last)]
    /\ UNCHANGED <<image, page, message, gallery, sent, uploads, now, run, res, wk, scan, eh, s3, bot>>

\* every variable of the upload model
main_calls == <<image, page, message, telegraph, gallery, sent, edits, articles,
                uploads, now, run, ops, last, ledgerErr, faultsLeft>>
main == <<main_calls, scan, eh, s3, bot>>

\* ------------------------------------------- EhClient::get_image_url
\* an image URL: the tier of the page it was extracted from, and the page
Url(tier, g, n) == [tier |-> tier, g |-> g, n |-> n]
NoUrl == Url("none", 0, 0)
NoOut == [kind |-> "none", fileindex |-> 0, url |-> NoUrl, error |-> "none"]
\* Result<(u32, String)>
Ok(f, url) == [kind |-> "ok", fileindex |-> f, url |-> url, error |-> "none"]
Err(e) == [kind |-> "err", fileindex |-> 0, url |-> NoUrl, error |-> e]
\* an unwrap() of None
Panicked == [kind |-> "panic", fileindex |-> 0, url |-> NoUrl, error |-> "none"]

\* res: the call's position, its page, what the page held (an original link,
\* a downgrade token nl, the fileindex), the tiers requested so far with
\* their outcome, and the value returned
NoRes == [pc |-> "none", g |-> 0, n |-> 0, original |-> FALSE, nl |-> FALSE,
          fileindex |-> 0, log |-> <<>>, out |-> NoOut]

Tried(r, tier, ok) == [r EXCEPT !.log = Append(@, [tier |-> tier, ok |-> ok])]
Returned(r, out) == [r EXCEPT !.pc = "done", !.out = out]

\* client.rs:655: the original link is requested when the page has one
OriginalTier(hasOriginal) == IF hasOriginal THEN "original" ELSE "head"

\* client.rs:635-652: the page is fetched and parsed.  A failed request is
\* returned as the error; a page without img#img panics at the unwrap.
get_image_url ==
    /\ res.pc = "none"
    /\ UNCHANGED <<main, wk>>
    /\ \E g \in Galleries :
       \E n \in PageNumbers(g), got \in {"ok", "err", "no_img"},
          hasOriginal, hasNl \in BOOLEAN :
            /\ got # "ok" => n = 1 /\ g = 1 /\ ~hasOriginal /\ ~hasNl
            /\ res' = CASE got = "err" -> Returned(res, Err("Reqwest"))
                        [] got = "no_img" -> Returned(res, Panicked)
                        [] OTHER -> [res EXCEPT !.pc = OriginalTier(hasOriginal),
                                                !.g = g, !.n = n,
                                                !.original = hasOriginal,
                                                !.nl = hasNl,
                                                !.fileindex = PageFileIndex(g, n)]

\* AfterOriginal falling back whatever the request returned
AfterOriginalAlwaysFallback(sendOk) == "head"

\* client.rs:658-668: a response of the original link ends the call; a
\* failed request falls through to fallback_to_normal_image
AfterOriginal(sendOk) == IF sendOk THEN "return" ELSE "head"

\* client.rs:655-669: the original link is requested with send() alone: any
\* response, of whatever status, is Ok and its final URL is returned
get_image_url_original ==
    /\ res.pc = "original"
    /\ UNCHANGED <<main, wk>>
    /\ \E resp \in {"2xx", "status", "err"} :
        LET sendOk == resp # "err"
            r == Tried(res, "original", sendOk)
        IN  res' = IF AfterOriginal(sendOk) = "return"
                   THEN Returned(r, Ok(res.fileindex, Url("original", res.g, res.n)))
                   ELSE [r EXCEPT !.pc = "head"]

\* AfterHead reporting the broken URL without looking for the token
AfterHeadBrokenFirst(headOk, hasNl) == IF headOk THEN "return" ELSE "broken"

\* client.rs:683-694: the branches of fallback_to_normal_image
AfterHead(headOk, hasNl) ==
    IF headOk THEN "return" ELSE IF hasNl THEN "refetch" ELSE "broken"

\* client.rs:675-694: the HEAD probe of the standard URL
fallback_to_normal_image ==
    /\ res.pc = "head"
    /\ UNCHANGED <<main, wk>>
    /\ \E headOk \in BOOLEAN :
        LET r == Tried(res, "standard", headOk)
            to == AfterHead(headOk, res.nl)
        IN  res' = CASE to = "return" ->
                            Returned(r, Ok(res.fileindex, Url("standard", res.g, res.n)))
                     [] to = "refetch" -> [r EXCEPT !.pc = "refetch"]
                     [] OTHER -> Returned(r, Err("HaHUrlBroken"))

\* RefetchedUrl keeping the URL of the first page
RefetchedUrlStale(url, fresh) == url

\* client.rs:690-691: the url returned is the one of the re-fetched page
RefetchedUrl(url, fresh) == fresh

\* client.rs:685-691: the page is fetched again with the nl token
fallback_refetch ==
    /\ res.pc = "refetch"
    /\ UNCHANGED <<main, wk>>
    /\ \E got \in {"ok", "err", "no_img"} :
        LET r == Tried(res, "downgraded", got = "ok")
        IN  res' = CASE got = "err" -> Returned(r, Err("Reqwest"))
                     [] got = "no_img" -> Returned(r, Panicked)
                     [] OTHER ->
                        Returned(r, Ok(res.fileindex,
                                       RefetchedUrl(Url("standard", res.g, res.n),
                                                    Url("downgraded", res.g, res.n))))

\* ------------------------------------------------- one worker iteration
\* uploader.rs:480: the least size of an acceptable transform result
MinBytes == 1000
\* uploader.rs:480: the payload cap
MaxBytes == 4900000
\* uploader.rs:355: the size above which an image is compressed
CompressAbove == 2000000
\* uploader.rs:451, 454: the sizes of the H@H error test
HathSmall == 100
HathTiny == 50

\* a response body: who produced it, its length, whether its text contains
\* "error" or "Error"
Body(from, size, err) == [from |-> from, size |-> size, err |-> err]
\* vec![]
NoBody == Body("none", 0, FALSE)
BodySizes == {0, 40, 60, 999, 1000, 4900000, 4900001}
Bodies(from) == {b \in {Body(from, s, e) : s \in BodySizes, e \in BOOLEAN} :
                    b.err => b.size >= 5}
\* Content-Length values of the HEAD probe
HeadSizes == {1500, 2000000, 2000001, 5000000}
\* bodies of the original image, and sizes of its local WebP encoding
OriginalBodies == {Body("source", s, FALSE) : s \in {60, 3000000, 6000000}}
LocalSizes == {2500000, 3500000, 5500000}

\* wk: the worker's position and locals (should_compress, original_file_size,
\* request_failed, bytes, service_name), the bodies passed to s3.upload, the
\* value returned and the body, read from a response, that made it return;
\* tiers: the requests and encodings made for the image, in their order
NoWk == [pc |-> "none", hath |-> FALSE, webp |-> FALSE, compress |-> FALSE,
         osize |-> 0, failed |-> FALSE, bytes |-> NoBody, service |-> "none",
         after |-> "none", sentUp |-> {}, out |-> "none", cause |-> NoBody,
         tiers |-> <<>>]

\* the worker makes the request or the encoding of tier t
Attempted(w, t) == [w EXCEPT !.tiers = Append(@, t)]

WkDone(w, out, cause) == [w EXCEPT !.pc = "done", !.out = out, !.cause = cause]

\* uploader.rs:480, 548, 569, 596: the size test of a transform result
Acceptable(size) == size >= MinBytes /\ size <= MaxBytes

\* uploader.rs:350-378: should_compress and original_file_size from the HEAD
\* probe ("err": the request failed; "none": no usable Content-Length)
SizeProbe(head, size) ==
    IF head \in {"err", "none"} THEN [compress |-> FALSE, osize |-> 0]
    ELSE [compress |-> size > CompressAbove, osize |-> size]

\* uploader.rs:347-389: the size probe chooses between the transform URL and
\* the resolved URL.  hath: the resolved URL is one of a hath.network node;
\* webp: its suffix is webp.
worker_head ==
    /\ wk.pc = "none"
    /\ UNCHANGED <<main, res>>
    /\ \E hath, webp \in BOOLEAN, head \in {"err", "none", "length"},
          size \in HeadSizes :
        wk' = [wk EXCEPT !.pc = "download", !.hath = hath, !.webp = webp,
                         !.compress = SizeProbe(head, size).compress,
                         !.osize = SizeProbe(head, size).osize]

\* uploader.rs:401, 451: download_url.contains("hath.network").  The
\* transform URL embeds urlencoding::encode(&url), which keeps letters and
\* dots, so it contains the host of the resolved URL.
DownloadUrlIsHath(hath, compress) == hath

\* uploader.rs:451-457: a small body from a hath.network URL is an error
HathErrorBody(hathUrl, b) ==
    hathUrl /\ b.size < HathSmall /\ (b.err \/ b.size < HathTiny)

\* uploader.rs:480-485
UseOriginalInstead(compress, failed, size, osize) ==
    /\ compress /\ ~failed /\ Acceptable(size)
    /\ osize > 0 /\ size > osize /\ osize <= MaxBytes

\* uploader.rs:488, 515, 658-662: what follows the download
AfterDownload(compress, failed, size, osize) ==
    IF UseOriginalInstead(compress, failed, size, osize) THEN "original"
    ELSE IF compress /\ (failed \/ size < MinBytes \/ size > MaxBytes) THEN "service"
    ELSE "upload"

\* uploader.rs:525-543: the transform tried next
ServiceName(failed, size) ==
    IF failed THEN "wsrv_lossless"
    ELSE IF size > MaxBytes THEN "images_lossy" ELSE "wsrv_lossless"

Routed(w) ==
    LET to == AfterDownload(w.compress, w.failed, w.bytes.size, w.osize)
    IN  [w EXCEPT !.pc = to,
                  !.after = "upload",
                  !.service = IF to = "service" THEN ServiceName(w.failed, w.bytes.size)
                              ELSE "none"]

\* uploader.rs:391-475: the download.  An error status ends the worker,
\* except a 504 of the transform from a URL that does not contain
\* hath.network, which is retried; a failed request goes on with empty bytes.
worker_download ==
    /\ wk.pc = "download"
    /\ UNCHANGED <<main, res>>
    /\ LET from == IF wk.compress THEN "transform" ELSE "source"
           hathUrl == DownloadUrlIsHath(wk.hath, wk.compress)
           w == Attempted(wk, IF wk.compress THEN "images_lossless" ELSE "source")
       IN \E kind \in {"send_err", "504", "status", "read_err", "body"},
             b \in Bodies(from) :
            /\ kind # "body" => b = Body(from, 0, FALSE)
            /\ wk' = CASE kind = "send_err" -> Routed([w EXCEPT !.failed = TRUE])
                       [] kind \in {"504", "status"} ->
                            IF hathUrl THEN WkDone(w, "hath_err", NoBody)
                            ELSE IF kind = "504" /\ wk.compress
                                 THEN [w EXCEPT !.pc = "retry504"]
                                 ELSE WkDone(w, "status_err", NoBody)
                       [] kind = "read_err" -> WkDone(w, "read_err", NoBody)
                       [] OTHER ->
                            IF HathErrorBody(hathUrl, b) THEN WkDone(w, "hath_err", b)
                            ELSE Routed([w EXCEPT !.bytes = b])

\* uploader.rs:404-440: the 504 retry with the other transform at quality
\* 100; anything but a successful body goes on with empty bytes
worker_retry504 ==
    /\ wk.pc = "retry504"
    /\ UNCHANGED <<main, res>>
    /\ \E ok \in BOOLEAN, b \in Bodies("transform") :
        /\ ~ok => b = Body("transform", 0, FALSE)
        /\ wk' = Routed([Attempted(wk, "wsrv_q100") EXCEPT
                              !.bytes = IF ok THEN b ELSE NoBody])

\* uploader.rs:488-514: the original is downloaded in place of a transform
\* result that is larger than it; on any failure the result is kept
worker_original ==
    /\ wk.pc = "original"
    /\ UNCHANGED <<main, res>>
    /\ \E ok \in BOOLEAN, b \in Bodies("source") :
        /\ ~ok => b = Body("source", 0, FALSE)
        /\ wk' = [Attempted(wk, "raw") EXCEPT !.pc = "upload",
                                               !.bytes = IF ok THEN b ELSE @]

\* uploader.rs:546-657: the next transform; its body is taken when its size
\* is acceptable, else the backup transform follows; a failed request goes
\* to the local transcode
worker_service ==
    /\ wk.pc = "service"
    /\ UNCHANGED <<main, res>>
    /\ \E ok \in BOOLEAN, b \in Bodies("transform") :
        /\ ~ok => b = Body("transform", 0, FALSE)
        /\ LET w == Attempted(wk, wk.service)
           IN  wk' = IF ~ok THEN [w EXCEPT !.pc = "transcode"]
                     ELSE IF Acceptable(b.size) THEN [w EXCEPT !.pc = "upload", !.bytes = b]
                     ELSE [w EXCEPT !.pc = "backup"]

\* uploader.rs:560-614: the backup transform (wsrv.nl at quality 95)
worker_backup ==
    /\ wk.pc = "backup"
    /\ UNCHANGED <<main, res>>
    /\ \E ok \in BOOLEAN, b \in Bodies("transform") :
        /\ ~ok => b = Body("transform", 0, FALSE)
        /\ LET w == Attempted(wk, "wsrv_lossy")
           IN  wk' = IF ok /\ Acceptable(b.size) THEN [w EXCEPT !.pc = "upload", !.bytes = b]
                     ELSE [w EXCEPT !.pc = "transcode"]

\* a request that failed, or an encoder that did
Failed == Body("failed", 0, FALSE)

\* uploader.rs:942-1036: convert_to_webp_locally_static.  dl is the original
\* as downloaded, enc the size of its WebP encoding (the lossy attempt runs
\* the lossless encoder again), encOk whether the encoder succeeded; the
\* encoding is taken when it is under the cap and smaller than the original.
convert_to_webp_locally_static(dl, encOk, enc) ==
    IF dl = Failed \/ ~encOk THEN Failed
    ELSE IF enc <= MaxBytes /\ enc < dl.size THEN Body("local", enc, FALSE)
    ELSE Failed

\* uploader.rs:866-898: the local encoding, or else the original as
\* downloaded once more, whatever it holds
try_local_transcode(dl, encOk, enc, raw) ==
    LET conv == convert_to_webp_locally_static(dl, encOk, enc)
    IN  IF conv # Failed THEN conv ELSE raw

\* uploader.rs:575-655, 680-697: the calls of try_local_transcode
worker_transcode ==
    /\ wk.pc = "transcode"
    /\ UNCHANGED <<main, res>>
    /\ \E dl \in {Failed} \cup OriginalBodies, encOk \in BOOLEAN, enc \in LocalSizes,
          raw \in {Failed} \cup OriginalBodies :
        LET got == try_local_transcode(dl, encOk, enc, raw)
            conv == convert_to_webp_locally_static(dl, encOk, enc)
            w == IF conv = Failed THEN Attempted(Attempted(wk, "local"), "raw")
                 ELSE Attempted(wk, "local")
        IN  /\ conv # Failed => raw = Failed
            /\ wk' = IF got = Failed
                      THEN WkDone(w, IF wk.after = "upload" THEN "transcode_err"
                                     ELSE "upload_err", NoBody)
                      ELSE [w EXCEPT !.pc = wk.after, !.bytes = got]

\* uploader.rs:672-703: the upload; when it fails for an image that was not
\* compressed and is no webp, the local transcode is uploaded instead
worker_upload ==
    /\ wk.pc = "upload"
    /\ UNCHANGED <<main, res>>
    /\ \E ok \in BOOLEAN :
        wk' = IF ok THEN WkDone([wk EXCEPT !.sentUp = @ \cup {wk.bytes}], "ok", NoBody)
              ELSE IF ~wk.compress /\ ~wk.webp
                   THEN [wk EXCEPT !.sentUp = @ \cup {wk.bytes}, !.pc = "transcode",
                                   !.after = "reupload"]
                   ELSE WkDone([wk EXCEPT !.sentUp = @ \cup {wk.bytes}], "upload_err",
                               NoBody)

\* uploader.rs:682-691: the upload of the transcoded bytes
worker_reupload ==
    /\ wk.pc = "reupload"
    /\ UNCHANGED <<main, res>>
    /\ \E ok \in BOOLEAN :
        wk' = WkDone([wk EXCEPT !.sentUp = @ \cup {wk.bytes}],
                     IF ok THEN "ok" ELSE "upload_err", NoBody)

\* ------------------------------------------------------ specifications
Pristine ==
    /\ image = {} /\ page = {} /\ message = {} /\ telegraph = {} /\ gallery = {}
    /\ sent = {} /\ edits = {} /\ articles = <<>>
    /\ uploads = [h \in Hashes |-> 0]
    /\ now = 0
    /\ run = [r \in RunIds |-> IdleRun]
    /\ ops = 0
    /\ last = NoCall
    /\ ledgerErr = FALSE
    /\ faultsLeft = MaxFaults

Init == Pristine /\ res = NoRes /\ wk = NoWk /\ scan = NoScan /\ eh = NoEh /\ s3 = NoS3 /\ bot = NoBot

\* the calls of the scan loop and of the commands, one at a time
Next ==
    \/ \E g \in Galleries, check \in BOOLEAN : try_upload(1, g, check)
    \/ upload_gallery_image(1)
    \/ getter_resolve(1)
    \/ getter_send(1)
    \/ \E i \in Workers : worker_recv(1, i)
    \/ \E i \in Workers : worker_acquire(1, i)
    \/ \E i \in Workers : worker_process(1, i)
    \/ pipeline_join(1)
    \/ try_upload_publish(1)
    \/ \E g \in Galleries, check \in BOOLEAN : try_update(g, check)
    \/ \E g \in Galleries : republish(g)

Spec == Init /\ [][Next]_vars

\* one call of get_image_url
NextUrl ==
    \/ get_image_url
    \/ get_image_url_original
    \/ fallback_to_normal_image
    \/ fallback_refetch

SpecUrl == Init /\ [][NextUrl]_vars

\* one iteration of a worker, from the size probe to the upload
NextWorker ==
    \/ worker_head
    \/ worker_download
    \/ worker_retry504
    \/ worker_original
    \/ worker_service
    \/ worker_backup
    \/ worker_transcode
    \/ worker_upload
    \/ worker_reupload

SpecWorker == Init /\ [][NextWorker]_vars

\* the last day of the clock
MaxDay == 40
\* the days on which the gallery of SpecCadence was published
PublishDays == {0, 20}

\* the state in which try_upload(1, FALSE) has succeeded on that day, on an
\* empty Ledger and without a failure
PublishedOn(day) ==
    /\ image = {[id |-> f, hash |-> FileHash(f), url |-> f] : f \in {1, 2, 3}}
    /\ page = {[gallery_id |-> 1, page |-> n, image_id |-> PageFileIndex(1, n)] :
                    n \in PageNumbers(1)}
    /\ message = {[id |-> 1, gallery_id |-> 1, publish_date |-> day]}
    /\ telegraph = {[gallery_id |-> 1, url |-> 1]}
    /\ gallery = {[id |-> 1, meta |-> 0]}
    /\ sent = {[id |-> 1, gallery |-> 1, reply_to |-> 0]}
    /\ edits = {}
    /\ articles = <<{[page |-> n, url |-> PageFileIndex(1, n)] : n \in PageNumbers(1)}>>
    /\ uploads = [h \in Hashes |-> 1]
    /\ now = day
    /\ run = [r \in RunIds |-> IdleRun]
    /\ ops = 1
    /\ last = [op |-> "try_upload", g |-> 1, check |-> FALSE, res |-> "ok",
               net |-> {"fetch", "resolve", "download", "upload", "publish", "send"},
               fetched |-> 0, wrote |-> TRUE, prev |-> NoPrev]
    /\ ledgerErr = FALSE
    /\ faultsLeft = MaxFaults

InitCadence ==
    (\E day \in PublishDays : PublishedOn(day)) /\ res = NoRes /\ wk = NoWk /\ scan = NoScan /\ eh = NoEh /\ s3 = NoS3 /\ bot = NoBot

\* uploader.rs:164: Utc::now() moves on by a day
tick ==
    /\ now < MaxDay
    /\ now' = now + 1
    /\ UNCHANGED <<image, page, message, telegraph, gallery, sent, edits, articles,
                   uploads, run, ops, last, ledgerErr, faultsLeft, res, wk, scan, eh, s3, bot>>

\* try_update calls on the days after a gallery was published
NextCadence ==
    \/ tick
    \/ \E g \in Galleries, check \in BOOLEAN : try_update(g, check)

SpecCadence == InitCadence /\ [][NextCadence]_vars

\* ------------------------------------------------ ExloliUploader::check
\* uploader.rs:76: exhentai.search_count, the number of gallery refs taken
\* from the feed
FeedCap == 2
\* uploader.rs:74-76: what search_iter(..).take(search_count) can yield
Feeds == UNION {[1..n -> Galleries] : n \in 0..FeedCap}

\* uploader.rs:62-73: a scan cycle begins, the feed is opened
check_start(feed) ==
    /\ scan.pc = "none"
    /\ scan' = [NoScan EXCEPT !.pc = "next", !.feed = feed]
    /\ UNCHANGED <<main_calls, res, wk, eh, s3, bot>>

\* uploader.rs:78: stream.next() yields the next ref, or the cycle is over
check_next ==
    /\ scan.pc = "next"
    /\ scan' = IF scan.k < Len(scan.feed)
               THEN [scan EXCEPT !.pc = "update", !.k = @ + 1]
               ELSE [scan EXCEPT !.pc = "done"]
    /\ UNCHANGED <<main_calls, res, wk, eh, s3, bot>>

\* AfterUpdate ending the cycle when try_update failed
AfterUpdateAbort(result) == IF result = "ok" THEN "upload" ELSE "done"

\* uploader.rs:80-82: an error of try_update is logged and try_upload is
\* called; a panic of try_update unwinds through check
AfterUpdate(result) == IF result = "panic" THEN "panicked" ELSE "upload"

\* uploader.rs:80: try_update(&next, true)
check_update ==
    /\ scan.pc = "update"
    /\ try_update_call(scan.feed[scan.k], TRUE)
    /\ scan' = [scan EXCEPT !.pc = AfterUpdate(last'.res),
                            !.log = Append(@, [op |-> "try_update", g |-> scan.feed[scan.k]]),
                            !.out = Append(@, last'.res)]
    /\ UNCHANGED <<eh, s3, bot>>

\* uploader.rs:83: try_upload(&next, true) is called
check_upload ==
    /\ scan.pc = "upload"
    /\ try_upload_call(1, scan.feed[scan.k], TRUE)
    /\ scan' = [scan EXCEPT !.pc = "uploading",
                            !.log = Append(@, [op |-> "try_upload", g |-> scan.feed[scan.k]])]
    /\ UNCHANGED <<eh, s3, bot>>

\* uploader.rs:83-89: try_upload has returned; an error is logged and the
\* admins are told, then the loop sleeps a second and goes on
check_uploaded ==
    /\ scan.pc = "uploading"
    /\ ~Active(1)
    /\ last.op = "try_upload"
    /\ scan' = [scan EXCEPT !.pc = "next", !.out = Append(@, last.res)]
    /\ UNCHANGED <<main_calls, res, wk, eh, s3, bot>>

\* the scan cycle starts on an empty Ledger or with gallery 1 published
InitScan == (Pristine \/ PublishedOn(0)) /\ res = NoRes /\ wk = NoWk /\ scan = NoScan /\ eh = NoEh /\ s3 = NoS3 /\ bot = NoBot

\* one scan cycle and the pipeline of its try_upload calls
NextScan ==
    \/ \E feed \in Feeds : check_start(feed)
    \/ check_next
    \/ check_update
    \/ check_upload
    \/ check_uploaded
    \/ upload_gallery_image(1)
    \/ getter_resolve(1)
    \/ getter_send(1)
    \/ \E i \in Workers : worker_recv(1, i)
    \/ \E i \in Workers : worker_acquire(1, i)
    \/ \E i \in Workers : worker_process(1, i)
    \/ pipeline_join(1)
    \/ try_upload_publish(1)

SpecScan == InitScan /\ [][NextScan]_vars

\* ------------------------------------------ one run of the image pipeline
\* an empty Ledger, and an environment that may fail a number of times
PipelineStart(faults) ==
    /\ image = {} /\ page = {} /\ message = {} /\ telegraph = {} /\ gallery = {}
    /\ sent = {} /\ edits = {} /\ articles = <<>>
    /\ uploads = [h \in Hashes |-> 0]
    /\ now = 0
    /\ run = [r \in RunIds |-> IdleRun]
    /\ ops = 0
    /\ last = NoCall
    /\ ledgerErr = FALSE
    /\ faultsLeft = faults
    /\ res = NoRes /\ wk = NoWk /\ scan = NoScan /\ eh = NoEh /\ s3 = NoS3 /\ bot = NoBot

\* an environment that may fail once per worker task
InitPipeline == PipelineStart(concurrent)

\* AdminCommand::Upload: try_upload of the long gallery, once
upload_long ==
    /\ ops = 0
    /\ try_upload_call(1, LongGallery, FALSE)
    /\ UNCHANGED <<scan, eh, s3, bot>>

\* the steps of a try_upload call in progress
NextRun ==
    \/ upload_gallery_image(1)
    \/ getter_resolve(1)
    \/ getter_send(1)
    \/ \E i \in Workers : worker_recv(1, i)
    \/ \E i \in Workers : worker_acquire(1, i)
    \/ \E i \in Workers : worker_process(1, i)
    \/ pipeline_join(1)
    \/ try_upload_publish(1)

NextPipeline ==
    \/ upload_long
    \/ NextRun

SpecPipeline == InitPipeline /\ [][NextPipeline]_vars

\* ================================================================ claims
Rows(g) == [image |-> Cardinality(image),
            page |-> Cardinality({m \in page : m.gallery_id = g}),
            article |-> Cardinality(TelegraphEntity_get(telegraph, g)),
            message |-> Cardinality(MessageEntity_get_by_gallery(message, g))]

\* C1 (dedup invariant): any two pages with an equal content hash that both
\* have their PageMapping row share exactly one Image row of that hash, and
\* both rows reference its id.  Stated for the executions in which no Ledger
\* write failed.
C1_DedupInvariant ==
    ~ledgerErr =>
        \A m1, m2 \in page :
            (m1 # m2 /\ PageHash(m1.gallery_id, m1.page) = PageHash(m2.gallery_id, m2.page))
            => LET rows == ImageEntity_get_by_hash(image, PageHash(m1.gallery_id, m1.page))
               IN  /\ Cardinality(rows) = 1
                   /\ \A i \in rows : m1.image_id = i.id /\ m2.image_id = i.id

\* C2: at most one ChannelMessage row exists for a gallery, after any
\* sequence of try_upload (check true or false), try_update and republish.
C2_OneMessagePerGallery ==
    \A g \in Galleries : Cardinality(MessageEntity_get_by_gallery(message, g)) <= 1

\* the call that completed last is try_upload(g, TRUE), called directly after
\* a completed try_upload(g, TRUE)
SecondCheckedUpload ==
    /\ last.op = "try_upload" /\ last.check
    /\ last.prev.op = "try_upload" /\ last.prev.check /\ last.prev.g = last.g

\* C3 as stated: the second of two try_upload(ref, true) calls in a row makes
\* no network call and changes no Ledger row.
C3_SecondCallIdle ==
    SecondCheckedUpload => (last.net = {} /\ ~last.wrote)

\* C3 as amended: when the first of the two calls returned success, the
\* second makes no network call and changes no Ledger row.
C3_SecondCallIdleAfterSuccess ==
    (SecondCheckedUpload /\ last.prev.res = "ok") => (last.net = {} /\ ~last.wrote)

C3_Witness == SecondCheckedUpload /\ last.prev.res = "ok" /\ gallery # {}

\* C4: on an empty Ledger and with every operation succeeding,
\* try_upload(1, FALSE) for the three-page gallery ends with 3 Image rows,
\* 3 PageMapping rows, 1 Article row and 1 ChannelMessage row; a following
\* try_upload(1, TRUE) adds no row.
C4_ThreePageScenario ==
    LET expected == [image |-> 3, page |-> 3, article |-> 1, message |-> 1]
        first == [op |-> "try_upload", g |-> 1, check |-> FALSE, res |-> "ok"]
    IN  /\ (ops = 1 /\ Summary(last) = first /\ ~ledgerErr) => Rows(1) = expected
        /\ (ops = 2 /\ last.op = "try_upload" /\ last.g = 1 /\ last.check
                /\ last.prev = first /\ ~ledgerErr)
            => (Rows(1) = expected /\ ~last.wrote /\ last.res = "ok")

C4_Witness ==
    /\ ops = 2 /\ last.op = "try_upload" /\ last.g = 1 /\ last.check
    /\ last.prev = [op |-> "try_upload", g |-> 1, check |-> FALSE, res |-> "ok"]
    /\ ~ledgerErr /\ Cardinality(image) = 3

\* the call that completed last is a successful republish(g), called directly
\* after a successful republish(g)
SecondRepublish ==
    /\ last.op = "republish" /\ last.res = "ok"
    /\ last.prev.op = "republish" /\ last.prev.res = "ok" /\ last.prev.g = last.g

\* C9 (republish replaces): after two republish calls for a gallery exactly
\* one Article row exists for it, with the url of the article the second call
\* created; a republish call leaves the ChannelMessage rows as they were.
C9_RepublishReplaces ==
    /\ [](SecondRepublish =>
            TelegraphEntity_get(telegraph, last.g)
                = {[gallery_id |-> last.g, url |-> Len(articles)]})
    /\ [][(\E g \in Galleries : republish(g)) => message' = message]_vars

C9_Witness == SecondRepublish /\ Len(articles) = 3

\* the cadence as the specification tabulates it, for a message published
\* n days ago
Cadence(n) ==
    CASE n \in 0..1 -> 1 [] n \in 2..6 -> 3 [] n \in 7..13 -> 7 [] OTHER -> 14

\* C5 (cadence law): a try_update call for a gallery that has its
\* GalleryEntity and its ChannelMessage, published N days ago, fetches the
\* gallery again if and only if it is not throttled or the day of the month
\* is a multiple of cadence(N).
C5_CadenceLaw ==
    [][\A g \in Galleries, check \in BOOLEAN :
        (/\ try_update(g, check)
         /\ GalleryEntity_get(gallery, g) # {}
         /\ MessageEntity_get_by_gallery(message, g) # {})
        => \A m \in MessageEntity_get_by_gallery(message, g) :
            ("fetch" \in last'.net)
                <=> (~check \/ DayOfMonth(now) % Cadence(now - m.publish_date) = 0)]_vars

\* a throttled call on 28 January for the gallery published on 1 January
\* has fetched it; the one before it, on an earlier day, had not been let
\* through
C5_Witness ==
    /\ last.op = "try_update" /\ last.check /\ last.g = 1
    /\ "fetch" \in last.net
    /\ now = 27 /\ (\E m \in message : m.gallery_id = 1 /\ m.publish_date = 0)
    /\ last.prev.op = "try_update"

\* the tiers of res.log, in the order they were requested
TierLog == [i \in 1..Len(res.log) |-> res.log[i].tier]
Failure(tier) == [tier |-> tier, ok |-> FALSE]
Success(tier) == [tier |-> tier, ok |-> TRUE]

\* C6 (fallback exhaustion): with no original link, the liveness probe of
\* the standard URL failed and the re-fetch with the downgrade token
\* successful, the call returns the fileindex with the image URL of the
\* re-fetched page, and no error.
C6_DowngradedResult ==
    (/\ res.pc = "done" /\ ~res.original
     /\ res.log = <<Failure("standard"), Success("downgraded")>>)
    => res.out = Ok(PageFileIndex(res.g, res.n), Url("downgraded", res.g, res.n))

C6_Witness ==
    /\ res.pc = "done" /\ ~res.original /\ res.out.kind = "ok"
    /\ res.log = <<Failure("standard"), Success("downgraded")>>

\* C7 as stated: HaHUrlBroken is returned only when the original link, the
\* liveness probe and the downgrade re-fetch were each requested and each
\* failed.
C7_BrokenAfterThreeTiers ==
    res.out.error = "HaHUrlBroken"
    => res.log = <<Failure("original"), Failure("standard"), Failure("downgraded")>>

\* C7 as amended: HaHUrlBroken is returned only when the original link was
\* absent or its request failed, the liveness probe of the standard URL
\* failed, and the page held no downgrade token, so that no re-fetch was made.
C7_BrokenWithoutToken ==
    res.out.error = "HaHUrlBroken"
    => /\ ~res.nl
       /\ res.log = IF res.original THEN <<Failure("original"), Failure("standard")>>
                    ELSE <<Failure("standard")>>

C7_Witness ==
    /\ res.pc = "done" /\ res.out = Err("HaHUrlBroken")
    /\ res.original /\ Len(res.log) = 2

\* C8 (tier order): the original link is requested first; the standard URL
\* is probed only after the original link was absent or its request failed;
\* the re-fetch is made only after the probe failed; the URL returned is the
\* one of the first tier that succeeded.
C8_TierOrder ==
    /\ \A i \in 1..Len(res.log) :
        /\ res.log[i].tier = "original" => i = 1 /\ res.original
        /\ res.log[i].tier = "standard" =>
                IF res.original THEN i = 2 /\ res.log[1] = Failure("original")
                ELSE i = 1
        /\ res.log[i].tier = "downgraded" => i > 1 /\ res.log[i - 1] = Failure("standard")
    /\ res.out.kind = "ok" =>
        /\ res.log # <<>>
        /\ \A i \in 1..Len(res.log) : res.log[i].ok <=> i = Len(res.log)
        /\ res.out.url = Url(res.log[Len(res.log)].tier, res.g, res.n)

C8_Witness ==
    /\ res.out.kind = "ok"
    /\ TierLog = <<"original", "standard", "downgraded">>

\* C10: a body of fewer than the 1000 bytes of the minimum that a
\* compression transform returned with a success status is never passed to
\* the upload, and it never ends the worker: the next tier is tried.
C10_SmallBodyNextTier ==
    /\ \A b \in wk.sentUp : b.from = "transform" => b.size >= MinBytes
    /\ ~(/\ wk.pc = "done" /\ wk.out # "ok"
         /\ wk.cause.from = "transform" /\ wk.cause.size < MinBytes)

\* the title and tags stored for gallery g
Snapshot(gal, g) == {e.meta : e \in GalleryEntity_get(gal, g)}

\* some try_update call is the step
UpdateStep == \E g \in Galleries, check \in BOOLEAN : try_update(g, check)

\* C11: a try_update call sends no channel message and creates no
\* ChannelMessage row: the messages sent and the rows are the same before and
\* after it, and every edit it makes is of the message id stored for the
\* gallery.
C11_UpdateOnlyEdits ==
    [][\A g \in Galleries, check \in BOOLEAN :
          try_update(g, check) =>
              /\ sent' = sent
              /\ message' = message
              /\ \A e \in edits' \ edits :
                     e.id \in {m.id : m \in MessageEntity_get_by_gallery(message, g)}]_vars

\* a try_update call has edited the stored message of its gallery
C11_Witness ==
    /\ last.op = "try_update" /\ last.res = "ok" /\ "edit" \in last.net
    /\ \E m \in MessageEntity_get_by_gallery(message, last.g) :
           \E e \in edits : e.id = m.id
    /\ Cardinality(message) = Cardinality(sent)

\* C12: a try_update call for a gallery without a GalleryEntity row or
\* without a ChannelMessage row fetches nothing, edits nothing, writes nothing
\* to the ledger and returns success.
C12_UpdateNoOp ==
    [][\A g \in Galleries, check \in BOOLEAN :
          (/\ try_update(g, check)
           /\ (GalleryEntity_get(gallery, g) = {}
               \/ MessageEntity_get_by_gallery(message, g) = {})) =>
              /\ last'.res = "ok"
              /\ last'.net = {}
              /\ edits' = edits
              /\ sent' = sent
              /\ ledger' = ledger]_vars

\* a try_update call has returned for a gallery that has a ChannelMessage
\* row and no GalleryEntity row
C12_Witness ==
    /\ last.op = "try_update" /\ last.res = "ok" /\ last.net = {}
    /\ GalleryEntity_get(gallery, last.g) = {}
    /\ MessageEntity_get_by_gallery(message, last.g) # {}

\* C13 as stated: after the re-fetch an edit call is made exactly when the
\* fetched title and tags differ from the stored snapshot, and when they
\* differ the stored snapshot afterwards is the fetched gallery.
C13_EditIffChanged ==
    [][(UpdateStep /\ last'.fetched # NoMeta) =>
          LET changed == Snapshot(gallery, last'.g) # {last'.fetched}
          IN  /\ ("edit" \in last'.net) <=> changed
              /\ changed => Snapshot(gallery', last'.g) = {last'.fetched}]_vars

\* C13, amended: after the re-fetch an edit call is made exactly when the
\* fetched title and tags differ from the stored snapshot; when the call
\* returns success the stored snapshot afterwards is the fetched gallery and
\* the message was edited exactly when they differed; when the call fails the
\* snapshot is the one stored before.
C13_EditIffChangedOnSuccess ==
    [][(UpdateStep /\ last'.fetched # NoMeta) =>
          LET changed == Snapshot(gallery, last'.g) # {last'.fetched}
          IN  /\ ("edit" \in last'.net) <=> changed
              /\ ~changed => edits' = edits
              /\ last'.res = "ok" =>
                     /\ Snapshot(gallery', last'.g) = {last'.fetched}
                     /\ changed => edits' # {}
              /\ last'.res # "ok" => gallery' = gallery]_vars

\* a try_update call fetched a gallery that differed from the snapshot,
\* edited the message and stored the fetched gallery
C13_Witness ==
    /\ last.op = "try_update" /\ last.res = "ok" /\ last.wrote
    /\ "edit" \in last.net /\ edits # {}
    /\ last.fetched # NoMeta
    /\ Snapshot(gallery, last.g) = {last.fetched}

\* uploader.rs:78-89: the first n calls of a scan cycle over feed
ScanCalls(feed, n) ==
    [i \in 1..n |-> [op |-> IF i % 2 = 1 THEN "try_update" ELSE "try_upload",
                     g |-> feed[(i + 1) \div 2]]]

C15_PipelineReturns == Active(1) => ENABLED NextRun

\* the pages resolved and not yet taken by a worker, in the order of their
\* resolution, followed by the pages still to resolve
Pending(r) ==
    run[r].queue \o (IF run[r].held = 0 THEN <<>> ELSE <<run[r].held>>) \o run[r].todo

\* every element of seq is smaller than the one after it
Increasing(seq) == \A i \in 1..(Len(seq) - 1) : seq[i] < seq[i + 1]

\* C16: the pipeline passes on to the publishing only if the resolver and
\* every worker returned without an error; when the resolver or a worker
\* returned an error or panicked, try_upload returns an error.
C16_JoinPropagates ==
    [][pipeline_join(1) =>
          LET clean == /\ run[1].getter = "ok"
                       /\ \A i \in Workers : run[1].w[i].st = "ok"
          IN  /\ clean <=> run'[1].pc = "publish"
              /\ ~clean => /\ ~Active(1)'
                           /\ last'.op = "try_upload" /\ last'.res = "err"
                           /\ "publish" \notin last'.net]_vars

\* try_upload has returned the error of a pipeline whose workers had been at
\* work
C16_Witness ==
    /\ last.op = "try_upload" /\ last.res = "err"
    /\ "download" \in last.net /\ "upload" \in last.net
    /\ "publish" \notin last.net
    /\ ~Active(1)

\* C17: the queue between resolver and workers never holds more than twice
\* the configured worker count; with the queue full and a tuple in hand the
\* resolver resolves no page and pushes nothing: the next step of the run is
\* a worker's.
C17_Backpressure ==
    /\ Len(run[1].queue) <= 2 * Threads
    /\ (run[1].pc = "pipeline" /\ Len(run[1].queue) >= 2 * Threads /\ run[1].held # 0) =>
           ~ENABLED (getter_resolve(1) \/ getter_send(1))

\* the queue is full, the resolver holds the next tuple and has pages left
C17_Witness ==
    /\ run[1].pc = "pipeline" /\ run[1].getter = "run"
    /\ Len(run[1].queue) = 2 * Threads
    /\ run[1].held # 0 /\ run[1].todo # <<>>

\* C18: the resolver has at most one page in hand, and the pages are pushed
\* in gallery page order: the pages pushed, the page in hand and the pages
\* still to resolve are in increasing page order.
C18_ResolveInOrder ==
    Active(1) =>
        /\ Increasing(run[1].pushed
                      \o (IF run[1].held = 0 THEN <<>> ELSE <<run[1].held>>)
                      \o run[1].todo)
        /\ \A k \in 1..Len(run[1].queue) :
               run[1].queue[k]
                   = run[1].pushed[Len(run[1].pushed) - Len(run[1].queue) + k]

\* six pages have been pushed and the seventh is in hand
C18_Witness ==
    /\ run[1].pc = "pipeline"
    /\ Len(run[1].pushed) = 6 /\ run[1].held = 7
    /\ run[1].queue # <<>>

\* C19: at most N pages are in the network section of a worker, N the
\* configured thread count, whatever the number of tuples in the queue.
C19_NetworkSection ==
    Cardinality({i \in Workers : run[1].w[i].st = "net"}) <= Threads

\* N pages are in the network section while the queue is full
C19_Witness ==
    /\ Cardinality({i \in Workers : run[1].w[i].st = "net"}) = Threads
    /\ Len(run[1].queue) = QueueCap

\* C20: a page whose hash had an Image row at the partition has its
\* PageMapping row and is never resolved, queued, downloaded or uploaded;
\* when every page was known the call goes on to the publishing without a
\* resolve, download or upload call.
C20_DedupPartition ==
    \A r \in RunIds : Active(r) /\ run[r].pc # "fetch" =>
        /\ \A n \in run[r].known :
            /\ \E row \in page : row.gallery_id = run[r].g /\ row.page = n
            /\ n \notin run[r].touched
            /\ \A k \in 1..Len(Pending(r)) : Pending(r)[k] # n
            /\ \A i \in Workers : run[r].w[i].p # n
        /\ run[r].known = PageNumbers(run[r].g) =>
            /\ run[r].pc = "publish"
            /\ run[r].net \cap {"resolve", "download", "upload"} = {}

\* gallery 1 is in the pipeline with page 1 known and page 2 resolved
C20_Witness ==
    /\ run[1].pc = "pipeline" /\ run[1].g = 1
    /\ run[1].known = {1} /\ 2 \in run[1].touched

\* the Ledger writes attempted for page n in the call of slot r
AttemptsFor(r, n, write) == {a \in run[r].attempted : a.page = n /\ a.write = write}

\* C21: when a worker has uploaded a page, the Image write and the
\* PageMapping write have both been attempted for it, the PageMapping write
\* also when the Image write failed; a PageMapping write that succeeded left
\* its row.
C21_BothWritesAttempted ==
    /\ \A a \in run[1].attempted :
           /\ AttemptsFor(1, a.page, "image") # {}
           /\ AttemptsFor(1, a.page, "page") # {}
           /\ (a.write = "page" /\ a.ok) =>
                  \E row \in page : row.gallery_id = run[1].g /\ row.page = a.page
    /\ [][\A i \in Workers :
             (worker_process(1, i) /\ run'[1].w[i].st = "recv") =>
                 \A write \in {"image", "page"} :
                     \E a \in run'[1].attempted :
                         a.page = run[1].w[i].p /\ a.write = write]_vars

\* the Image write of a page failed and its PageMapping write succeeded
C21_Witness ==
    \E a \in run[1].attempted :
        /\ a.write = "image" /\ ~a.ok
        /\ \E b \in AttemptsFor(1, a.page, "page") : b.ok
        /\ \E row \in page : row.gallery_id = run[1].g /\ row.page = a.page

\* C22: for a page selected for compression the worker returns an error
\* only when the original bytes could not be downloaded or the upload
\* failed; no failure of a transform service ends it.
C22_TransformFailureDegrades ==
    (wk.pc = "done" /\ wk.compress /\ wk.out # "ok") =>
        wk.out \in {"transcode_err", "upload_err"}

\* the place of a tier in the fallback chain: the alternate provider
\* lossless, a provider with lossy settings, the local re-encode, the raw
\* original bytes
TierRank(t) ==
    CASE t = "wsrv_lossless" -> 1
      [] t \in {"images_lossy", "wsrv_lossy", "wsrv_q100"} -> 2
      [] t = "local" -> 3
      [] t = "raw" -> 4
      [] OTHER -> 0

\* the tiers tried after the primary lossless transform
Fallbacks(w) == SubSeq(w.tiers, 2, Len(w.tiers))

\* C23: after the primary lossless transform failed or gave an unacceptable
\* result, the tiers are tried in the order alternate provider lossless, lossy
\* settings, local re-encode, raw original bytes, and the raw original bytes
\* are uploaded only after each of the three earlier tiers was tried.
C23_FallbackOrder ==
    LET fb == Fallbacks(wk)
    IN  (wk.compress /\ fb # <<>> /\ fb[1] # "raw") =>
            /\ \A i, j \in 1..Len(fb) : i < j => TierRank(fb[i]) <= TierRank(fb[j])
            /\ (wk.pc = "done" /\ wk.out = "ok" /\ fb[Len(fb)] = "raw") =>
                   {1, 2, 3} \subseteq {TierRank(fb[i]) : i \in 1..Len(fb)}

\* page n of gallery g is recorded: an Image row for its hash and its
\* PageMapping row
Recorded(img, pg, g, n) ==
    /\ ImageEntity_get_by_hash(img, PageHash(g, n)) # {}
    /\ \E row \in pg : row.gallery_id = g /\ row.page = n

\* the call of slot r is a retry: the call that completed last before it was
\* a try_upload of the same gallery that returned an error
Retry(r) ==
    /\ Active(r)
    /\ run[r].prev.op = "try_upload" /\ run[r].prev.res = "err"
    /\ run[r].prev.g = run[r].g

\* C24: no step removes an Image or PageMapping row, so the rows of a call
\* that failed remain; and a retried try_upload of the same gallery resolves,
\* downloads and uploads no page that is recorded.
C24_ResumeAfterFailure ==
    [][/\ image \subseteq image'
       /\ page \subseteq page'
       /\ Retry(1) =>
            /\ \A n \in run'[1].touched \ run[1].touched :
                   ~Recorded(image, page, run[1].g, n)
            /\ \A i \in Workers :
                   worker_process(1, i) =>
                       ~Recorded(image, page, run[1].g, run[1].w[i].p)]_vars

\* the retry of a call that failed has put aside a recorded page and is at
\* work on another
C24_Witness ==
    /\ Retry(1) /\ ops = 2
    /\ \E n \in run[1].known : Recorded(image, page, run[1].g, n)
    /\ \E n \in run[1].touched : n \notin run[1].known
    /\ uploads[PageHash(run[1].g, 1)] = 1

\* C25: an image that has been mirrored is not uploaded again: no step
\* makes an upload call for a hash that has an Image row.
C25_NoSecondUpload ==
    [][\A h \in Hashes :
          ImageEntity_get_by_hash(image, h) # {} => uploads'[h] = uploads[h]]_vars

\* C26: when try_upload is about to publish the article, every page of the
\* gallery has a PageMapping row that references an existing Image row.
C26_FullPageSetAtPublication ==
    \A r \in RunIds : run[r].pc = "publish" =>
        \A n \in PageNumbers(run[r].g) :
            \E row \in page :
                /\ row.gallery_id = run[r].g /\ row.page = n
                /\ \E im \in image : im.id = row.image_id

\* ------------------------------------------------------- EhClient::new
\* client.rs:328: a page shorter than this is taken for a failed login
MinPageLen == 1000

\* the places a request can end at after its redirects (response.url())
Urls == {"site", "login", "bounce_login"}

\* client.rs:310: final_url.contains("bounce_login") || final_url.contains("login")
UrlIsLogin(u) == u \in {"login", "bounce_login"}

\* the lengths of a response text: String::len() counts the bytes of the
\* UTF-8 text, chars is the number of its characters
TextBytes == {0, 500, MinPageLen}
TextChars == {0, 200, 500, MinPageLen}

\* no text was read
NoText == [bytes |-> -1, chars |-> -1, replace |-> FALSE, window |-> FALSE,
           bounce |-> FALSE]

\* the texts process_response returns: their lengths and whether they hold
\* "location.replace", "window.location", "bounce_login"
Texts ==
    {b \in [bytes : TextBytes, chars : TextChars, replace : BOOLEAN,
            window : BOOLEAN, bounce : BOOLEAN] :
        /\ b.chars <= b.bytes
        /\ (b.bytes = 0) = (b.chars = 0)
        /\ b.bytes = 0 => ~b.replace /\ ~b.window /\ ~b.bounce}

\* no request was made
NoResponse == [send |-> "none", url |-> "none", read |-> "none", body |-> NoText]

\* the outcomes of one request: send() fails, or it ends at a url and
\* process_response (client.rs:47-113) fails or returns a text
Responses ==
    {[send |-> "err", url |-> "none", read |-> "none", body |-> NoText]}
    \cup {[send |-> "ok", url |-> u, read |-> "err", body |-> NoText] : u \in Urls}
    \cup {[send |-> "ok", url |-> u, read |-> "ok", body |-> b] : u \in Urls, b \in Texts}

\* client.rs:167-200: step 1, the home page: a failed request and a login
\* redirect are errors; a short text is an error only if it holds a redirect
HomeVerdict(resp) ==
    IF resp.send = "err" THEN "err"
    ELSE IF UrlIsLogin(resp.url) THEN "err"
    ELSE IF resp.read = "err" THEN "ok"
    ELSE IF resp.body.bytes < MinPageLen /\ (resp.body.replace \/ resp.body.bounce)
         THEN "err"
    ELSE "ok"

\* FinalVerdict warning about a short text as step 1 does
FinalVerdictLenient(resp) == HomeVerdict(resp)

\* client.rs:304-346: step 4, the final verification
FinalVerdict(resp) ==
    IF resp.send = "err" THEN "err"
    ELSE IF UrlIsLogin(resp.url) THEN "err"
    ELSE IF resp.read = "err" THEN "err"
    ELSE IF resp.body.bytes < MinPageLen
         THEN IF resp.body.bytes = 0 THEN "ok" ELSE "err"
    ELSE "ok"

\* client.rs:116-150: the cookie is cleaned, the HTTP client is built
\* (build()? can fail) and the EhClient value made
new_start ==
    /\ eh.pc = "none"
    /\ \E built \in BOOLEAN :
         eh' = IF built
               THEN [pc |-> "home", home |-> NoResponse, final |-> NoResponse,
                     out |-> "none"]
               ELSE [pc |-> "done", home |-> NoResponse, final |-> NoResponse,
                     out |-> "err"]
    /\ UNCHANGED <<main_calls, res, wk, scan, s3, bot>>

\* client.rs:159-204: step 1
new_home ==
    /\ eh.pc = "home"
    /\ \E resp \in Responses :
         eh' = IF HomeVerdict(resp) = "err"
               THEN [eh EXCEPT !.pc = "done", !.home = resp, !.out = "err"]
               ELSE [eh EXCEPT !.pc = "uconfig", !.home = resp]
    /\ UNCHANGED <<main_calls, res, wk, scan, s3, bot>>

\* client.rs:206-249: step 2, /uconfig.php: whatever comes back is logged
new_uconfig ==
    /\ eh.pc = "uconfig"
    /\ \E resp \in Responses : eh' = [eh EXCEPT !.pc = "mytags"]
    /\ UNCHANGED <<main_calls, res, wk, scan, s3, bot>>

\* client.rs:251-295: step 3, /mytags: whatever comes back is logged
new_mytags ==
    /\ eh.pc = "mytags"
    /\ \E resp \in Responses : eh' = [eh EXCEPT !.pc = "final"]
    /\ UNCHANGED <<main_calls, res, wk, scan, s3, bot>>

\* client.rs:297-349: step 4, then Ok(eh_client)
new_final ==
    /\ eh.pc = "final"
    /\ \E resp \in Responses :
         eh' = [eh EXCEPT !.pc = "done", !.final = resp, !.out = FinalVerdict(resp)]
    /\ UNCHANGED <<main_calls, res, wk, scan, s3, bot>>

\* one call of EhClient::new
NextAuth == new_start \/ new_home \/ new_uconfig \/ new_mytags \/ new_final

SpecAuth == Init /\ [][NextAuth]_vars

\* the final verification request of a finished EhClient::new was answered
FinalAnswered == eh.pc = "done" /\ eh.final.send = "ok"

\* C27 as stated: EhClient::new returns an error whenever the final
\* verification request is redirected to a login endpoint or its response
\* text is shorter than 1000 characters.
C27_AuthRejects ==
    (/\ FinalAnswered
     /\ \/ UrlIsLogin(eh.final.url)
        \/ eh.final.read = "ok" /\ eh.final.body.chars < MinPageLen)
    => eh.out = "err"

\* C27, amended: EhClient::new returns an error whenever the final
\* verification request is redirected to a login endpoint or its response
\* text is not empty and shorter than 1000 bytes; a client is returned only
\* after a final response that was not redirected to login and whose text
\* is empty or at least 1000 bytes long.
C27_AuthRejectsNonEmptyShort ==
    /\ (/\ FinalAnswered
        /\ \/ UrlIsLogin(eh.final.url)
           \/ /\ eh.final.read = "ok"
              /\ eh.final.body.bytes > 0
              /\ eh.final.body.bytes < MinPageLen)
       => eh.out = "err"
    /\ (eh.pc = "done" /\ eh.out = "ok")
       => /\ eh.final.send = "ok" /\ eh.final.read = "ok"
          /\ ~UrlIsLogin(eh.final.url)
          /\ eh.final.body.bytes = 0 \/ eh.final.body.bytes >= MinPageLen

\* the final verification came back from the site, not empty, too short
\* and without a redirect in it, and EhClient::new returned an error
C27_Witness ==
    /\ FinalAnswered /\ eh.final.url = "site" /\ eh.final.read = "ok"
    /\ eh.final.body.bytes = 500
    /\ ~eh.final.body.replace /\ ~eh.final.body.window /\ ~eh.final.body.bounce
    /\ eh.out = "err"

\* ------------------------------------------- EhClient::page, page_iter
\* the most feed pages one page_iter stream requests
MaxRequests == 3

\* the most rows below the header of one feed page
MaxRows == 2

\* client.rs:419: the cursor of the first request, "0"
StartCursor == 0

\* client.rs:396-398: the page has no a#dnext link
NoCursor == -1

\* the cursors a#dnext links carry
Cursors == {1, 2}

\* client.rs:389-394: a row of table.itg.gltc: it has the title and the link
\* or lacks them; g is the gallery its href parses to, 0 if it does not parse
FeedRows == {[link |-> FALSE, g |-> 0]} \cup {[link |-> TRUE, g |-> x] : x \in 0..2}

RowLists == UNION {[1..n -> FeedRows] : n \in 0..MaxRows}

\* what one request of a feed page meets: send()/error_for_status or
\* text() fails, or the document has rows and perhaps an a#dnext link
FeedResponses ==
    {[got |-> FALSE, rows |-> <<>>, dnext |-> NoCursor]}
    \cup {[got |-> TRUE, rows |-> rows, dnext |-> c] :
              rows \in RowLists, c \in Cursors \cup {NoCursor}}

\* client.rs:389-394: the rows in order; unwrap() panics at a row without
\* title or link, url.parse()? returns the error of an href that is no
\* gallery url
RECURSIVE ReadRows(_, _)
ReadRows(rows, ret) ==
    IF rows = <<>> THEN [kind |-> "ok", refs |-> ret]
    ELSE IF ~Head(rows).link THEN [kind |-> "panic", refs |-> <<>>]
    ELSE IF Head(rows).g = 0 THEN [kind |-> "err", refs |-> <<>>]
    ELSE ReadRows(Tail(rows), Append(ret, Head(rows).g))

\* client.rs:353-401: EhClient::page: Ok((ret, next)), Err or a panic
EhClient_page(resp) ==
    IF ~resp.got THEN [kind |-> "err", refs |-> <<>>, next |-> NoCursor]
    ELSE LET r == ReadRows(resp.rows, <<>>) IN
         [kind |-> r.kind, refs |-> r.refs,
          next |-> IF r.kind = "ok" THEN resp.dnext ELSE NoCursor]

\* client.rs:414-438: the stream is made: unfold(Some("0"), ..).flatten()
page_iter ==
    /\ eh.pc = "none"
    /\ eh' = [pc |-> "poll", next |-> StartCursor, buf |-> <<>>, out |-> <<>>,
              reqs |-> <<>>, results |-> <<>>]
    /\ UNCHANGED <<main_calls, res, wk, scan, s3, bot>>

\* flatten: the stream is polled while refs of the last page are left
iter_yield ==
    /\ eh.pc = "poll" /\ eh.buf # <<>>
    /\ eh' = [eh EXCEPT !.out = Append(@, Head(eh.buf)), !.buf = Tail(@)]
    /\ UNCHANGED <<main_calls, res, wk, scan, s3, bot>>

\* client.rs:420-433: the stream is polled, no ref is left and the state is
\* Some(next): self.page(url, params, &next)
iter_fetch ==
    /\ eh.pc = "poll" /\ eh.buf = <<>> /\ eh.next # NoCursor
    /\ Len(eh.reqs) < MaxRequests
    /\ \E resp \in FeedResponses :
         LET r == EhClient_page(resp) IN
         eh' = [eh EXCEPT !.reqs = Append(@, eh.next),
                          !.results = Append(@, r),
                          !.buf = r.refs,
                          !.next = r.next,
                          !.pc = CASE r.kind = "ok" -> "poll"
                                   [] r.kind = "err" -> "done"
                                   [] OTHER -> "panicked"]
    /\ UNCHANGED <<main_calls, res, wk, scan, s3, bot>>

\* client.rs:421-422: the stream is polled, no ref is left and the state is
\* None: the stream ends
iter_end ==
    /\ eh.pc = "poll" /\ eh.buf = <<>> /\ eh.next = NoCursor
    /\ eh' = [eh EXCEPT !.pc = "done"]
    /\ UNCHANGED <<main_calls, res, wk, scan, s3, bot>>

\* one page_iter stream, polled to its end
NextFeed == page_iter \/ iter_yield \/ iter_fetch \/ iter_end

SpecFeed == Init /\ [][NextFeed]_vars

\* a page_iter stream exists
Streaming == eh.pc \in {"poll", "done", "panicked"}

\* the refs of the pages fetched, in the order of the pages
RECURSIVE RefsOf(_)
RefsOf(results) ==
    IF results = <<>> THEN <<>> ELSE Head(results).refs \o RefsOf(Tail(results))

\* client.rs:419-433: the first request carries "0", each later one the
\* cursor of the page before it; nothing is requested after a page that
\* failed or had no next cursor; the refs come out in page order and the
\* stream ends only after a failed page or a page without next cursor
FeedFollowsCursors ==
    Streaming =>
        /\ Len(eh.reqs) = Len(eh.results)
        /\ \A i \in 1..Len(eh.reqs) :
               /\ eh.reqs[i] = IF i = 1 THEN StartCursor ELSE eh.results[i - 1].next
               /\ eh.reqs[i] # NoCursor
               /\ eh.results[i].kind # "ok" => i = Len(eh.reqs) /\ eh.pc # "poll"
        /\ eh.out \o eh.buf = RefsOf(eh.results)
        /\ eh.pc = "done" =>
               /\ eh.buf = <<>> /\ eh.results # <<>>
               /\ eh.results[Len(eh.results)].next = NoCursor

\* C28: a page_iter stream never panics into its caller: a feed page that
\* fails ends the stream after the refs of the pages before it, with no
\* further request; otherwise every request carries the cursor of the page
\* before it and the stream ends after a page without next cursor.
C28_FeedEndsQuietly ==
    /\ Streaming => eh.pc # "panicked"
    /\ FeedFollowsCursors

\* ------------------------------------------------- EhClient::get_gallery
\* the most further thumbnail pages one get_gallery call requests
MaxThumbPages == 2

\* the texts of gallery pages: bytes is String::len(); html: the text
\* without leading whitespace starts with "<!DOCTYPE html>" or "<html";
\* fields: h1#gn, td.tc, #favcount and td.gdt2 are found and parse;
\* links: the number of div#gdt a links; bad: one of them is no page url;
\* more: table.ptb td:last-child a has an href
GalleryTexts ==
    {t \in [bytes : TextBytes, html : BOOLEAN, fields : BOOLEAN, links : 0..1,
            bad : BOOLEAN, more : BOOLEAN] :
        /\ t.bytes = 0 => ~t.html /\ ~t.fields /\ t.links = 0 /\ ~t.more
        /\ t.bad => t.links > 0}

\* client.rs:524-533: where the first request ended: at its own url, at
\* the home page, at a login page or elsewhere
GalleryUrls == {"same", "home", "login", "other"}

\* client.rs:545-587: the checks of the first text passed: it is not
\* empty, not shorter than MinPageLen and starts as HTML
Validated(t) == t.bytes # 0 /\ ~(t.bytes < MinPageLen) /\ t.html

\* client.rs:519: the first request fails (send or error_for_status), or
\* client.rs:525-533: it was redirected to the home page or to a login
\* page, or client.rs:545: process_response fails
get_gallery_refused ==
    /\ eh.pc = "none"
    /\ eh' = [pc |-> "done", out |-> "err", bodies |-> <<>>, links |-> 0,
              bad |-> FALSE, more |-> FALSE]
    /\ UNCHANGED <<main_calls, res, wk, scan, s3, bot>>

\* client.rs:506-603: the first page of the gallery is read, checked and,
\* if the checks pass, parsed: the fields and the page links of the page
get_gallery ==
    /\ eh.pc = "none"
    /\ \E u \in GalleryUrls \ {"home", "login"}, t \in GalleryTexts :
         LET parsed == Validated(t)
             ok == parsed /\ t.fields
         IN eh' = [pc |-> IF ok THEN "pages" ELSE "done",
                   out |-> IF ok THEN "none" ELSE "err",
                   bodies |-> <<[text |-> t, extracted |-> parsed]>>,
                   links |-> IF ok THEN t.links ELSE 0,
                   bad |-> ok /\ t.bad,
                   more |-> ok /\ t.more]
    /\ UNCHANGED <<main_calls, res, wk, scan, s3, bot>>

\* client.rs:605-613: a further page of thumbnails: the request or the
\* reading of its text fails, or the text is parsed as it is
get_gallery_more ==
    /\ eh.pc = "pages" /\ eh.more
    /\ Len(eh.bodies) <= MaxThumbPages
    /\ \/ eh' = [eh EXCEPT !.pc = "done", !.out = "err"]
       \/ \E t \in GalleryTexts :
            eh' = [eh EXCEPT !.bodies = Append(@, [text |-> t, extracted |-> TRUE]),
                             !.links = @ + t.links,
                             !.bad = @ \/ t.bad,
                             !.more = t.more]
    /\ UNCHANGED <<main_calls, res, wk, scan, s3, bot>>

\* client.rs:615-631: the links are parsed and the EhGallery returned
get_gallery_return ==
    /\ eh.pc = "pages" /\ ~eh.more
    /\ eh' = [eh EXCEPT !.pc = "done", !.out = IF eh.bad THEN "err" ELSE "ok"]
    /\ UNCHANGED <<main_calls, res, wk, scan, s3, bot>>

\* one call of EhClient::get_gallery
NextGallery ==
    get_gallery_refused \/ get_gallery \/ get_gallery_more \/ get_gallery_return

SpecGallery == Init /\ [][NextGallery]_vars

\* a get_gallery call has read the text of a response
GalleryRead == eh.pc \in {"pages", "done"} /\ eh.bodies # <<>>

\* C29: get_gallery extracts nothing from a response text that is empty,
\* shorter than the minimum length or does not start as an HTML document,
\* and returns an error after such a text: a gallery is returned only from
\* texts that passed the checks. The length is String::len(), as in the code.
C29_ValidatedBeforeExtraction ==
    GalleryRead =>
        \A i \in 1..Len(eh.bodies) :
            ~Validated(eh.bodies[i].text) =>
                /\ ~eh.bodies[i].extracted
                /\ eh.pc = "done" => eh.out = "err"

\* ---------------------------------------------------- S3Uploader::upload
\* the longest payload handed to upload, in bytes
MaxPayload == 2

\* the payloads: byte strings over two byte values
Payloads == UNION {[1..n -> {1, 2}] : n \in 0..MaxPayload}

\* uploader.rs:664-670: the file names the worker passes
FileNames == {"a.jpg", "b.webp"}

\* nothing was submitted to a backend
NoSubmission == [sent |-> FALSE, name |-> "", body |-> <<>>]

\* s3.rs:54-55, 221-222: read_to_end appends what is left in the reader to
\* the buffer and leaves the reader at its end (the readers of the callers
\* are byte slices: uploader.rs:672, 682)
read_to_end(reader) == [buffer |-> reader, reader |-> <<>>]

\* s3.rs:47-190: how a submission to teletype.in ends: a url; an error
\* status 401/403; 524 and the one retry gives a url or not; another error
\* status; the request fails; the answer holds no url
TeletypeOutcomes ==
    {"url", "unauthorized", "retry_url", "retry_failed", "status", "send_err",
     "no_url"}

TeletypeOk(o) == o \in {"url", "retry_url"}

\* s3.rs:206-211: upload(name, reader) is called
upload_begin ==
    /\ s3.pc = "none"
    /\ \E token \in BOOLEAN, name \in FileNames, payload \in Payloads :
         s3' = [pc |-> IF token THEN "teletype" ELSE "fallback",
                token |-> token, name |-> name, payload |-> payload,
                reader |-> payload, cause |-> "none",
                primary |-> NoSubmission, fallback |-> NoSubmission,
                out |-> "none", url |-> "none"]
    /\ UNCHANGED <<main_calls, res, wk, scan, eh, bot>>

\* s3.rs:47-190, 212-219: upload_to_teletype reads the reader to its end
\* and submits the buffer; Ok returns from upload, Err goes on to the
\* fallback
upload_to_teletype ==
    /\ s3.pc = "teletype"
    /\ \E o \in TeletypeOutcomes :
         LET rd == read_to_end(s3.reader) IN
         s3' = [s3 EXCEPT !.reader = rd.reader,
                          !.primary = [sent |-> TRUE, name |-> s3.name,
                                       body |-> rd.buffer],
                          !.cause = o,
                          !.pc = IF TeletypeOk(o) THEN "done" ELSE "fallback",
                          !.out = IF TeletypeOk(o) THEN "ok" ELSE "none",
                          !.url = IF TeletypeOk(o) THEN "teletype" ELSE "none"]
    /\ UNCHANGED <<main_calls, res, wk, scan, eh, bot>>

\* s3.rs:221-240: the reader is read to its end and the buffer posted to
\* api.img2ipfs.org; the url is made of the Hash and Name of the answer
upload_ipfs ==
    /\ s3.pc = "fallback"
    /\ \E accepted \in BOOLEAN :
         LET rd == read_to_end(s3.reader) IN
         s3' = [s3 EXCEPT !.reader = rd.reader,
                          !.fallback = [sent |-> TRUE, name |-> s3.name,
                                        body |-> rd.buffer],
                          !.pc = "done",
                          !.out = IF accepted THEN "ok" ELSE "err",
                          !.url = IF accepted THEN "ipfs" ELSE "none"]
    /\ UNCHANGED <<main_calls, res, wk, scan, eh, bot>>

\* one call of S3Uploader::upload
NextStore == upload_begin \/ upload_to_teletype \/ upload_ipfs

SpecStore == Init /\ [][NextStore]_vars

\* an upload call with a token is over and teletype.in had failed
PrimaryFailed ==
    s3.pc = "done" /\ s3.token /\ s3.primary.sent /\ ~TeletypeOk(s3.cause)

\* C30: when a token is configured and the upload to teletype.in fails,
\* upload submits the name and the whole payload it was given to the
\* fallback backend and returns the fallback's url; it returns an error
\* only if the fallback fails as well.
C30_FallbackSameUpload ==
    PrimaryFailed =>
        /\ s3.fallback.sent
        /\ s3.fallback.name = s3.name
        /\ s3.fallback.body = s3.payload
        /\ s3.out \in {"ok", "err"}
        /\ s3.out = "ok" => s3.url = "ipfs"

\* --------------------------- AutoRetryBot::edit_message_text_with_retry
\* the largest max_retries an AutoRetryBot is made with
MaxRetries == 3

\* auto_retry.rs:22: base_delay, in seconds
base_delay == 1

\* auto_retry.rs:62-71: the errors of bot.edit_message_text by what their
\* text (error.to_string()) holds: "Too Many Requests", "retry_after",
\* "timeout", "network", or none of these
EditErrors == {"Too Many Requests", "retry_after", "timeout", "network", "other"}

\* auto_retry.rs:63, 71: the error is retried after a delay
Retryable(e) == e \in {"Too Many Requests", "retry_after", "timeout", "network"}

\* Exhausted allowing one attempt more
ExhaustedLate(attempts, max_retries) == attempts > max_retries + 1

\* auto_retry.rs:56: attempts > self.max_retries
Exhausted(attempts, max_retries) == attempts > max_retries

\* auto_retry.rs:64, 72: self.base_delay * attempts
RetryDelay(attempts) == base_delay * attempts

\* auto_retry.rs:37-46: the call begins, attempts = 0
edit_begin ==
    /\ bot.pc = "none"
    /\ \E max_retries \in 0..MaxRetries :
         bot' = [pc |-> "loop", max_retries |-> max_retries, attempts |-> 0,
                 log |-> <<>>, delays |-> <<>>, out |-> "none", err |-> "none"]
    /\ UNCHANGED <<main_calls, res, wk, scan, eh, s3>>

\* auto_retry.rs:48-86: one turn of the loop: bot.edit_message_text is
\* called; Ok returns; an error is counted and returned when the count
\* exceeds max_retries or the error is not one to retry, else the call
\* sleeps and the loop goes on
edit_attempt ==
    /\ bot.pc = "loop"
    /\ \E o \in {"ok"} \cup EditErrors :
         LET attempts == bot.attempts + 1 IN
         bot' = IF o = "ok"
                THEN [bot EXCEPT !.pc = "done", !.out = "ok", !.log = Append(@, o)]
                ELSE IF Exhausted(attempts, bot.max_retries) \/ ~Retryable(o)
                THEN [bot EXCEPT !.pc = "done", !.out = "err", !.err = o,
                                 !.attempts = attempts, !.log = Append(@, o)]
                ELSE [bot EXCEPT !.attempts = attempts, !.log = Append(@, o),
                                 !.delays = Append(@, RetryDelay(attempts))]
    /\ UNCHANGED <<main_calls, res, wk, scan, eh, s3>>

\* one call of edit_message_text_with_retry
NextRetry == edit_begin \/ edit_attempt

SpecRetry == Init /\ [][NextRetry]_vars

\* C31: edit_message_text_with_retry calls the bot at most max_retries + 1
\* times and then returns the last error; every call but the last ended in
\* an error to retry and was followed by a delay; an error of another kind
\* is returned at once, and an error to retry is returned only when the
\* attempts are used up.
C31_BoundedRetries ==
    bot.pc # "none" =>
        /\ Len(bot.log) <= bot.max_retries + 1
        /\ Len(bot.delays) = (IF bot.pc = "done" THEN Len(bot.log) - 1 ELSE Len(bot.log))
        /\ \A i \in 1..Len(bot.delays) :
               Retryable(bot.log[i]) /\ bot.delays[i] > 0
        /\ (bot.pc = "done") = (bot.out # "none")
        /\ bot.pc = "done" =>
               LET final == bot.log[Len(bot.log)] IN
               /\ (bot.out = "ok") = (final = "ok")
               /\ bot.out = "err" =>
                      /\ bot.err = final
                      /\ Retryable(final) => Len(bot.log) = bot.max_retries + 1

\* a call with max_retries = 3 has slept three times and failed at the fourth
C31_Witness ==
    /\ bot.pc = "done" /\ bot.out = "err" /\ bot.max_retries = MaxRetries
    /\ Len(bot.log) = MaxRetries + 1
    /\ bot.delays = <<1, 2, 3>>

\* ------------------------------------------------ ExloliUploader::start
\* the days on which the gallery of SpecDaily was published: 1, 21 and
\* 28 January
StartDays == {0, 20, 27}

\* uploader.rs:62-69 with an interval of one day: the scan cycle of the day
\* is due; rechecks are the days on which try_update fetched the gallery
DailyScan == [pc |-> "check", rechecks |-> <<>>]

InitDaily ==
    /\ \E day \in StartDays : PublishedOn(day)
    /\ res = NoRes /\ wk = NoWk /\ scan = DailyScan
    /\ eh = NoEh /\ s3 = NoS3 /\ bot = NoBot

\* uploader.rs:65, 78-82: the scan cycle of the day meets the published
\* gallery: try_update(&next, true); try_upload(&next, true) then returns at
\* once, the gallery being known (uploader.rs:113-118)
start_check ==
    /\ scan.pc = "check"
    /\ try_update_call(1, TRUE)
    /\ scan' = [pc |-> "sleep",
                rechecks |-> IF "fetch" \in last'.net
                             THEN Append(scan.rechecks, now) ELSE scan.rechecks]
    /\ UNCHANGED <<eh, s3, bot>>

\* uploader.rs:67: time::sleep(self.config.interval), one day
start_sleep ==
    /\ scan.pc = "sleep"
    /\ now < MaxDay
    /\ now' = now + 1
    /\ scan' = [scan EXCEPT !.pc = "check"]
    /\ UNCHANGED <<image, page, message, telegraph, gallery, sent, edits, articles,
                   uploads, run, ops, last, ledgerErr, faultsLeft, res, wk, eh, s3, bot>>

\* the scan loop with one cycle a day
NextDaily == start_check \/ start_sleep

SpecDaily == InitDaily /\ [][NextDaily]_vars

\* the day the gallery of SpecDaily was published
Published == (CHOOSE m \in message : m.gallery_id = 1).publish_date

\* C32: with a throttled scan cycle every day, the published gallery is
\* re-checked on every day on which it is younger than 2 days, and two
\* consecutive re-checks made while it is younger than 7 days (and at least
\* 2 days old) are 3 days apart, 7 days apart while it is between 7 and 13
\* days old, and 14 days apart when it is older.
C32_StalenessCadence ==
    scan.pc \in {"check", "sleep"} =>
        LET days == scan.rechecks
            seen == {days[i] : i \in 1..Len(days)}
        IN /\ \A d \in Published..now :
                  (d - Published < 2 /\ (d < now \/ scan.pc = "sleep")) => d \in seen
           /\ \A i \in 1..(Len(days) - 1) :
                  LET a == days[i] - Published
                      b == days[i + 1] - Published
                  IN (a >= 2 /\ Cadence(a) = Cadence(b)) => days[i + 1] - days[i] = Cadence(b)

\* ------------------------------------------- the pipeline, scheduled
\* uploader.rs:281, 328: the tasks are spawned on the tokio runtime, which
\* runs a task that is ready; the caller awaits them (uploader.rs:739-745):
\* a run that can take a step takes one
SpecPipelineFair ==
    /\ PipelineStart(MaxFaults)
    /\ [][NextPipeline]_vars
    /\ WF_vars(NextRun)

\* page n waits in the queue of the run
Queued(n) == \E k \in 1..Len(run[1].queue) : run[1].queue[k] = n

\* page n was pushed, taken from the queue and the worker that took it has
\* ended its iteration on it
Processed(n) ==
    /\ \E k \in 1..Len(run[1].pushed) : run[1].pushed[k] = n
    /\ ~Queued(n)
    /\ \A i \in Workers : run[1].w[i].p # n

\* every worker task has ended with an error or a panic
AllWorkersFailed == \A i \in Workers : run[1].w[i].st \in {"err", "panic"}

\* C33: the error of a worker ends that worker alone: every page that
\* waits in the queue is in the end taken and processed by a worker, unless
\* every worker has failed.
C33_ErrorContained ==
    \A n \in PageNumbers(LongGallery) :
        Queued(n) ~> (Processed(n) \/ AllWorkersFailed)

\* a worker has failed; its sibling holds a tuple it took and more wait
C33_Witness ==
    \E i, j \in Workers :
        /\ run[1].w[i].st = "err"
        /\ run[1].w[j].st = "permit"
        /\ run[1].queue # <<>>

\* the channel messages sent for gallery g
Announced(g) == {s \in sent : s.gallery = g}

\* C34: a try_upload(ref, true) call sends no channel message for a gallery
\* that has been announced: in particular not after a call that failed
\* between the sending of the message and the last of the three records.
C34_NoSecondAnnouncement ==
    [][(try_upload_publish(1) /\ run[1].check /\ Announced(run[1].g) # {})
          => sent' = sent]_vars

\* the step ends a try_upload call with an error of the gallery fetch, of
\* the image pipeline or of the publication of the article
FailsBeforeSend ==
    /\ last' # last /\ last'.op = "try_upload" /\ last'.res = "err"
    /\ "send" \notin last'.net

\* C35: no step of a try_upload call up to the sending of the message, and
\* no step that ends the call with an error of the fetch, the pipeline or
\* the publication, sends a channel message or changes a GalleryEntity,
\* Article or ChannelMessage row; Image and PageMapping rows are only added.
C35_FailureLeavesNoAnnouncement ==
    [][((run' # run /\ Active(1)') \/ FailsBeforeSend)
          => /\ UNCHANGED <<sent, message, telegraph, gallery>>
             /\ image \subseteq image' /\ page \subseteq page']_vars

\* a try_upload call has failed at the publication of the article, after
\* its pipeline had written rows
C35_Witness ==
    /\ last.op = "try_upload" /\ last.res = "err"
    /\ "publish" \in last.net /\ "send" \notin last.net
    /\ image # {} /\ page # {}
    /\ sent = {} /\ message = {} /\ telegraph = {} /\ gallery = {}

\* ------------------------------------------------ two calls at the same time
\* the gallery that the scan loop and an upload command both find new
RacedGallery == 1

\* uploader.rs:84 and command_public.rs:131: try_upload(gallery, true), called
\* once by the scan task and once by the dispatcher task (exloli.rs:65-92);
\* the two tasks run side by side
race_upload(r) ==
    /\ ops < Cardinality(RunIds)
    /\ try_upload_call(r, RacedGallery, TRUE)
    /\ UNCHANGED <<scan, eh, s3, bot>>

NextRace ==
    \/ \E r \in RunIds : race_upload(r)
    \/ \E r \in RunIds : upload_gallery_image(r)
    \/ \E r \in RunIds : getter_resolve(r)
    \/ \E r \in RunIds : getter_send(r)
    \/ \E r \in RunIds, i \in Workers : worker_recv(r, i)
    \/ \E r \in RunIds, i \in Workers : worker_acquire(r, i)
    \/ \E r \in RunIds, i \in Workers : worker_process(r, i)
    \/ \E r \in RunIds : pipeline_join(r)
    \/ \E r \in RunIds : try_upload_publish(r)

SpecRace == PipelineStart(0) /\ [][NextRace]_vars

\* both calls have been made and have returned
BothReturned == ops = Cardinality(RunIds) /\ \A r \in RunIds : ~Active(r)

C37_GalleryRowImpliesMessageAndArticle ==
    /\ \A g \in Galleries :
          GalleryEntity_get(gallery, g) # {}
             => /\ MessageEntity_get_by_gallery(message, g) # {}
                /\ TelegraphEntity_get(telegraph, g) # {}
    /\ last.op = "try_update" => last.res # "panic"

\* a try_upload call failed at the write of the GalleryEntity row, after the
\* message and the article were recorded
C37_Witness ==
    /\ last.op = "try_upload" /\ last.res = "err" /\ ledgerErr
    /\ MessageEntity_get_by_gallery(message, last.g) # {}
    /\ TelegraphEntity_get(telegraph, last.g) # {}
    /\ GalleryEntity_get(gallery, last.g) = {}

\* C38 (referential integrity): every PageMapping row references the id of
\* an Image row of the Ledger, also after the Image write of a worker failed.
C38_PageReferencesImage ==
    \A m \in page : \E i \in image : i.id = m.image_id

\* uploaded_pages <= downloaded_pages <= parsed_pages <= total_pages
Ordered(prog) ==
    /\ prog.uploaded_pages <= prog.downloaded_pages
    /\ prog.downloaded_pages <= prog.parsed_pages
    /\ prog.parsed_pages <= prog.total_pages

\* no counter of q is below the same counter of p
NotBelow(p, q) ==
    /\ p.total_pages = q.total_pages
    /\ p.downloaded_pages <= q.downloaded_pages
    /\ p.uploaded_pages <= q.uploaded_pages
    /\ p.parsed_pages <= q.parsed_pages

\* C39: every UploadProgress value handed to the progress callback has
\* uploaded_pages <= downloaded_pages <= parsed_pages <= total_pages, and from
\* one report of a pipeline run to the next no counter decreases, whatever
\* the interleaving of the resolver and the workers.
C39_ProgressOrderedAndMonotone ==
    [][\A r \in RunIds :
          (run'[r].reported # run[r].reported /\ run'[r].reported # <<>>)
             => LET seq == run'[r].reported
                IN  /\ \A k \in 1..Len(seq) : Ordered(seq[k])
                    /\ run[r].reported # <<>>
                          => NotBelow(run[r].reported[Len(run[r].reported)], seq[1])
                    /\ \A k \in 2..Len(seq) : NotBelow(seq[k - 1], seq[k])]_vars

\* both workers are downloading while the resolver is ahead of them, after
\* a worker has reported a download and an upload
C39_Witness ==
    /\ run[1].pc = "pipeline"
    /\ \A i \in Workers : run[1].w[i].st = "net"
    /\ Len(run[1].reported) = 2
    /\ run[1].progress.uploaded_pages >= 2
    /\ run[1].progress.parsed_pages > run[1].progress.downloaded_pages + 2

\* the tuples of run r that were pushed and are no longer in the channel
Received(r) == SubSeq(run[r].pushed, 1, Len(run[r].pushed) - Len(run[r].queue))

\* the channel holds the tuples pushed last, in the order of their pushing,
\* and no tuple was pushed twice
QueueIsRestOfPushed(r) ==
    LET pu == run[r].pushed
        q == run[r].queue
    IN  /\ Len(q) <= Len(pu)
        /\ q = SubSeq(pu, Len(pu) - Len(q) + 1, Len(pu))
        /\ \A j, k \in 1..Len(pu) : pu[j] = pu[k] => j = k

\* the pages in the hands of the workers are received ones, each in the
\* hands of one worker only
OneHolder(r) ==
    \A i \in Workers :
        run[r].w[i].p # 0
           => /\ \E k \in 1..Len(Received(r)) : Received(r)[k] = run[r].w[i].p
              /\ \A j \in Workers : run[r].w[j].p = run[r].w[i].p => j = i

\* a tuple leaves the channel only as its head, into the hands of exactly
\* one worker that was waiting for it
TakenByOne(r) ==
    (run'[r].pc = "pipeline" /\ run'[r].queue # run[r].queue
        /\ Len(run'[r].queue) <= Len(run[r].queue))
       => /\ run[r].queue # <<>> /\ run'[r].queue = Tail(run[r].queue)
          /\ \E i \in Workers :
                /\ run[r].w[i].st = "recv"
                /\ run'[r].w[i] = [st |-> "permit", p |-> Head(run[r].queue)]
                /\ \A j \in Workers \ {i} : run'[r].w[j] = run[r].w[j]

\* a worker stops of itself only when the channel is empty and closed
StopsOnlyWhenDrained(r) ==
    \A i \in Workers :
        (run[r].pc = "pipeline" /\ run'[r].pc = "pipeline"
            /\ run[r].w[i].st # "ok" /\ run'[r].w[i].st = "ok")
           => run[r].queue = <<>> /\ run[r].getter \in Ended

\* C40: each tuple pushed onto the queue is received by exactly one worker:
\* the queue is what is left of the tuples pushed, a tuple leaves it only
\* into the hands of one worker, no page is in the hands of two workers, and
\* no worker stops while a tuple is left in the queue, so that none is lost
\* while a worker is still running.
C40_ReceivedByExactlyOneWorker ==
    /\ [](run[1].pc = "pipeline" => QueueIsRestOfPushed(1) /\ OneHolder(1))
    /\ [][TakenByOne(1) /\ StopsOnlyWhenDrained(1)]_vars

\* the two workers hold different pages, a third was received before them,
\* and tuples wait in the queue
C40_Witness ==
    /\ run[1].pc = "pipeline"
    /\ \A i \in Workers : run[1].w[i].st = "net"
    /\ \E i, j \in Workers : run[1].w[i].p # run[1].w[j].p
    /\ Len(Received(1)) >= 3
    /\ run[1].queue # <<>>

====
